---- MODULE Spec2Model ----
(***************************************************************************)
(* A model of mmtui, the terminal bracket viewer: the domain tree          *)
(* (api/src/lib.rs), the navigation controller (src/state/app_state.rs),   *)
(* and the message passing between the UI loop, the network worker, its    *)
(* spinner tasks and the periodic refresher (src/main.rs,                  *)
(* src/state/network.rs, src/state/refresher.rs).                          *)
(***************************************************************************)
EXTENDS Integers, Sequences, FiniteSets, TLC

(***************************************************************************)
(* Bounds of the model.                                                    *)
(***************************************************************************)
\* Largest number of regions of an input tournament.
MaxRegions == 3
\* Largest number of games of one round of an input tournament.
MaxGames == 2
\* Largest number of updates of one scoreboard batch.
MaxBatch == 2
\* Game ids are 1..MaxId (the strings of the code, abstracted to numbers).
MaxId == 3
\* Largest number of games of a tournament whose games vary in round and status.
MaxLoadGames == 2
\* Capacity of the request and of the response channel (100 in main.rs).
ChanCap == 2
\* Largest number of key presses (Down, Up) the UI loop handles.
MaxPresses == 1
\* Largest number of RefreshScores requests of the periodic refresher.
MaxRefresh == 2
\* Terminal widths 0..MaxWidth, and the largest u16.
MaxWidth == 100
\* Largest number of entries given to select_tournament_entry.
MaxEntries == 2
\* The dates given to candidate_tournament_years are of the years within
\* YearSpan of the fallback year.
YearSpan == 3

(***************************************************************************)
(* Constants of the code.                                                  *)
(***************************************************************************)
GAME_HEIGHT == 3
CONNECTOR_WIDTH == 3
CELL_W_FULL == 22
U16Range == 65536

(***************************************************************************)
(* Option<T>: None is the empty sequence, Some(x) the one-element one.     *)
(***************************************************************************)
None == << >>
Some(x) == << x >>
IsSome(o) == o # << >>
Unwrap(o) == o[1]

\* usize::saturating_sub
saturating_sub(a, b) == IF a > b THEN a - b ELSE 0

Max2(a, b) == IF a > b THEN a ELSE b

(***************************************************************************)
(* api/src/lib.rs: RoundKind, GameStatus, Game, Round, Region, Tournament. *)
(***************************************************************************)
RoundKind == {"FirstFour", "First", "Second", "Sweet16", "Elite8", "FinalFour",
              "Championship"}

GameStatus == {"Scheduled", "InProgress", "Final", "Postponed"}

\* The derived Ord of RoundKind: the position of the variant in the enum.
RoundOrd(k) ==
    CASE k = "FirstFour" -> 0
      [] k = "First" -> 1
      [] k = "Second" -> 2
      [] k = "Sweet16" -> 3
      [] k = "Elite8" -> 4
      [] k = "FinalFour" -> 5
      [] k = "Championship" -> 6

is_final_four(k) == k \in {"FinalFour", "Championship"}

RoundKind_prev(k) ==
    CASE k = "FirstFour" -> None
      [] k = "First" -> Some("FirstFour")
      [] k = "Second" -> Some("First")
      [] k = "Sweet16" -> Some("Second")
      [] k = "Elite8" -> Some("Sweet16")
      [] k = "FinalFour" -> Some("Elite8")
      [] k = "Championship" -> Some("FinalFour")

\* A faulty variant of RoundKind::next: the Championship wraps around to the FirstFour.
RoundKind_next_wrapping(k) ==
    CASE k = "FirstFour" -> Some("First")
      [] k = "First" -> Some("Second")
      [] k = "Second" -> Some("Sweet16")
      [] k = "Sweet16" -> Some("Elite8")
      [] k = "Elite8" -> Some("FinalFour")
      [] k = "FinalFour" -> Some("Championship")
      [] k = "Championship" -> Some("FirstFour")

RoundKind_next(k) ==
    CASE k = "FirstFour" -> Some("First")
      [] k = "First" -> Some("Second")
      [] k = "Second" -> Some("Sweet16")
      [] k = "Sweet16" -> Some("Elite8")
      [] k = "Elite8" -> Some("FinalFour")
      [] k = "FinalFour" -> Some("Championship")
      [] k = "Championship" -> None

\* A Game: its id, its status, and `rest`, which stands for all its other
\* fields (top, bottom, score, winner_id, period, clock, start_time, location):
\* merge_updates moves them as one value.
Game(id, status, rest) == [id |-> id, status |-> status, rest |-> rest]
Round(kind, games) == [kind |-> kind, games |-> games]
Region(name, rounds) == [name |-> name, rounds |-> rounds]
Tournament(regions) == [regions |-> regions]

\* Every game of the tree as a position <<region, round, game>>.
Positions(t) ==
    UNION { UNION { { <<r, k, g>> : g \in 1..Len(t.regions[r].rounds[k].games) } :
                    k \in 1..Len(t.regions[r].rounds) } :
            r \in 1..Len(t.regions) }

GameAt(t, p) == t.regions[p[1]].rounds[p[2]].games[p[3]]

\* The order in which the nested loops of find_game_mut visit the games.
Before(p, q) ==
    \/ p[1] < q[1]
    \/ p[1] = q[1] /\ p[2] < q[2]
    \/ p[1] = q[1] /\ p[2] = q[2] /\ p[3] < q[3]

\* Tournament::find_game_mut: the first game with this id in loop order.
find_game_mut(t, game_id) ==
    LET hits == { p \in Positions(t) : GameAt(t, p).id = game_id }
    IN  IF hits = {} THEN None
        ELSE Some(CHOOSE p \in hits : \A q \in hits : q = p \/ Before(p, q))

\* `*game = update` at position p.
ReplaceGame(t, p, update) ==
    [t EXCEPT !.regions[p[1]].rounds[p[2]].games[p[3]] = update]

\* Tournament::merge_updates: the updates one after the other, each written
\* over the game find_game_mut returns for its id, if any.
RECURSIVE Tournament_merge_updates(_, _)
Tournament_merge_updates(t, updates) ==
    IF updates = << >> THEN t
    ELSE LET update == Head(updates)
             found == find_game_mut(t, update.id)
             t1 == IF IsSome(found) THEN ReplaceGame(t, Unwrap(found), update) ELSE t
         IN  Tournament_merge_updates(t1, Tail(updates))

(***************************************************************************)
(* src/state/app_state.rs: detect_active_round.                            *)
(***************************************************************************)
round_order == << "FirstFour", "First", "Second", "Sweet16", "Elite8", "FinalFour",
                  "Championship" >>

\* regions.iter().any(rounds of this kind, any game with this status)
HasStatus(t, kind, status) ==
    \E p \in Positions(t) :
        /\ t.regions[p[1]].rounds[p[2]].kind = kind
        /\ GameAt(t, p).status = status

RECURSIVE DetectLoop(_, _, _)
DetectLoop(t, i, last_with_games) ==
    IF i > Len(round_order) THEN last_with_games
    ELSE LET kind == round_order[i]
         IN  IF HasStatus(t, kind, "InProgress") THEN kind
             ELSE DetectLoop(t, i + 1,
                     IF HasStatus(t, kind, "Final") THEN kind ELSE last_with_games)

detect_active_round(t) == DetectLoop(t, 1, "First")

(***************************************************************************)
(* The state: BracketState (app_state.rs) and AppState.last_error, with    *)
(* history variables: the last operation, its input, the cursor before it. *)
(***************************************************************************)
VARIABLES
    tournament,       \* Option<Tournament>
    current_round,
    view_round,
    selected_region,
    selected_game,
    scroll_offset,
    last_error,       \* Option<String>
    op,               \* history: the operation that ran last
    arg,              \* history: the input of the last load or merge_updates, else None
    pre               \* history: the cursor before the last operation

cursor == << view_round, selected_region, selected_game, scroll_offset >>
navVars == << tournament, current_round, view_round, selected_region, selected_game,
              scroll_offset, last_error, op, arg, pre >>

\* The first region named "National": regions.iter().find(|r| r.name == "National")
FindNational(t) ==
    LET hits == { i \in 1..Len(t.regions) : t.regions[i].name = "National" }
    IN  IF hits = {} THEN None
        ELSE Some(t.regions[CHOOSE i \in hits : \A j \in hits : i <= j])

\* regions.get(index), index counted from 0
RegionGet(t, index) ==
    IF index < Len(t.regions) THEN Some(t.regions[index + 1]) ELSE None

\* A faulty variant of ViewRegion: the selected region also at the Final Four.
ViewRegion_selected_only(t, vr, sr) == RegionGet(t, sr)

\* The region the cursor resolves to (selected_game_id and games_in_view).
ViewRegion(t, vr, sr) ==
    IF is_final_four(vr) THEN FindNational(t) ELSE RegionGet(t, sr)

\* rounds.iter().find(|r| r.kind == kind)
FindRound(region, kind) ==
    LET hits == { j \in 1..Len(region.rounds) : region.rounds[j].kind = kind }
    IN  IF hits = {} THEN None
        ELSE Some(region.rounds[CHOOSE j \in hits : \A l \in hits : j <= l])

\* A faulty variant of games_in_view: the games of every Round of the kind (filter and
\* flat_map, as detect_active_round reads them) instead of the first (find).
games_in_view_all_rounds(tn, vr, sr) ==
    IF ~IsSome(tn) THEN 0
    ELSE LET region == ViewRegion(Unwrap(tn), vr, sr)
         IN  IF ~IsSome(region) THEN 0
             ELSE LET rounds == Unwrap(region).rounds
                      RECURSIVE Count(_)
                      Count(j) == IF j > Len(rounds) THEN 0
                                  ELSE (IF rounds[j].kind = vr THEN Len(rounds[j].games)
                                        ELSE 0) + Count(j + 1)
                  IN  Count(1)

\* BracketState::games_in_view
games_in_view(tn, vr, sr) ==
    IF ~IsSome(tn) THEN 0
    ELSE LET region == ViewRegion(Unwrap(tn), vr, sr)
         IN  IF ~IsSome(region) THEN 0
             ELSE LET round == FindRound(Unwrap(region), vr)
                  IN  IF IsSome(round) THEN Len(Unwrap(round).games) ELSE 0

\* BracketState::selected_game_id
selected_game_id_of(tn, vr, sr, sg) ==
    IF ~IsSome(tn) THEN None
    ELSE LET region == ViewRegion(Unwrap(tn), vr, sr)
         IN  IF ~IsSome(region) THEN None
             ELSE LET round == FindRound(Unwrap(region), vr)
                  IN  IF ~IsSome(round) THEN None
                      ELSE IF sg < Len(Unwrap(round).games)
                           THEN Some(Unwrap(round).games[sg + 1].id)
                           ELSE None

selected_game_id == selected_game_id_of(tournament, view_round, selected_region,
                                        selected_game)

\* cycle_region's region_count: regions.len().saturating_sub(1), or 4 with no
\* tournament.
region_count(tn) ==
    IF IsSome(tn) THEN saturating_sub(Len(Unwrap(tn).regions), 1) ELSE 4

(***************************************************************************)
(* The operations of BracketState and the App handlers in front of them.   *)
(***************************************************************************)
\* AppState::new / BracketState::default
InitNav ==
    /\ tournament = None
    /\ current_round = "FirstFour"
    /\ view_round = "FirstFour"
    /\ selected_region = 0
    /\ selected_game = 0
    /\ scroll_offset = 0
    /\ last_error = None
    /\ op = "init"
    /\ arg = None
    /\ pre = cursor

\* A faulty variant of load: the selected game and the scroll offset are left
\* as they were.
load_keeps_cursor(t) ==
    /\ last_error' = None
    /\ current_round' = detect_active_round(t)
    /\ view_round' = current_round'
    /\ selected_region' = 0
    /\ tournament' = Some(t)
    /\ op' = "load"
    /\ arg' = Some(t)
    /\ pre' = cursor
    /\ UNCHANGED << selected_game, scroll_offset >>

\* App::on_bracket_loaded, BracketState::load
load(t) ==
    /\ last_error' = None
    /\ current_round' = detect_active_round(t)
    /\ view_round' = current_round'
    /\ selected_game' = 0
    /\ selected_region' = 0
    /\ scroll_offset' = 0
    /\ tournament' = Some(t)
    /\ op' = "load"
    /\ arg' = Some(t)
    /\ pre' = cursor

\* A faulty variant of merge_updates: the tree is patched and the active round is not
\* detected again.
merge_updates_no_redetect(games) ==
    /\ IF IsSome(tournament)
       THEN tournament' = Some(Tournament_merge_updates(Unwrap(tournament), games))
       ELSE UNCHANGED tournament
    /\ op' = "merge_updates"
    /\ arg' = Some(games)
    /\ pre' = cursor
    /\ UNCHANGED << current_round, view_round, selected_region, selected_game,
                    scroll_offset, last_error >>

\* App::on_scores_updated, BracketState::merge_updates
merge_updates(games) ==
    /\ IF IsSome(tournament)
       THEN LET t == Tournament_merge_updates(Unwrap(tournament), games)
            IN  /\ tournament' = Some(t)
                /\ current_round' = detect_active_round(t)
       ELSE UNCHANGED << tournament, current_round >>
    /\ op' = "merge_updates"
    /\ arg' = Some(games)
    /\ pre' = cursor
    /\ UNCHANGED << view_round, selected_region, selected_game, scroll_offset,
                    last_error >>

navigate_round_next ==
    /\ IF IsSome(RoundKind_next(view_round))
       THEN /\ view_round' = Unwrap(RoundKind_next(view_round))
            /\ selected_game' = 0
            /\ scroll_offset' = 0
       ELSE UNCHANGED << view_round, selected_game, scroll_offset >>
    /\ op' = "navigate_round_next"
    /\ arg' = None
    /\ pre' = cursor
    /\ UNCHANGED << tournament, current_round, selected_region, last_error >>

navigate_round_prev ==
    /\ IF IsSome(RoundKind_prev(view_round))
       THEN /\ view_round' = Unwrap(RoundKind_prev(view_round))
            /\ selected_game' = 0
            /\ scroll_offset' = 0
       ELSE UNCHANGED << view_round, selected_game, scroll_offset >>
    /\ op' = "navigate_round_prev"
    /\ arg' = None
    /\ pre' = cursor
    /\ UNCHANGED << tournament, current_round, selected_region, last_error >>

navigate_game_down ==
    /\ LET max == saturating_sub(games_in_view(tournament, view_round, selected_region), 1)
       IN  selected_game' = IF selected_game < max THEN selected_game + 1
                            ELSE selected_game
    /\ op' = "navigate_game_down"
    /\ arg' = None
    /\ pre' = cursor
    /\ UNCHANGED << tournament, current_round, view_round, selected_region,
                    scroll_offset, last_error >>

navigate_game_up ==
    /\ selected_game' = saturating_sub(selected_game, 1)
    /\ op' = "navigate_game_up"
    /\ arg' = None
    /\ pre' = cursor
    /\ UNCHANGED << tournament, current_round, view_round, selected_region,
                    scroll_offset, last_error >>

cycle_region ==
    /\ IF ~is_final_four(view_round)
       THEN /\ selected_region' =
                   (selected_region + 1) % Max2(region_count(tournament), 1)
            /\ selected_game' = 0
            /\ scroll_offset' = 0
       ELSE UNCHANGED << selected_region, selected_game, scroll_offset >>
    /\ op' = "cycle_region"
    /\ arg' = None
    /\ pre' = cursor
    /\ UNCHANGED << tournament, current_round, view_round, last_error >>

\* A faulty variant of on_error: the error also drops the stored tournament.
on_error_dropping_tree(message) ==
    /\ last_error' = Some(message)
    /\ tournament' = None
    /\ op' = "on_error"
    /\ arg' = None
    /\ pre' = cursor
    /\ UNCHANGED << current_round, view_round, selected_region, selected_game,
                    scroll_offset >>

\* App::on_error
on_error(message) ==
    /\ last_error' = Some(message)
    /\ op' = "on_error"
    /\ arg' = None
    /\ pre' = cursor
    /\ UNCHANGED << tournament, current_round, view_round, selected_region,
                    selected_game, scroll_offset >>

\* App::start_pick_wizard, as far as the bracket state and last_error go:
\* without a tournament the wizard is refused with an error.
start_pick_wizard ==
    /\ last_error' = IF tournament = None THEN Some("Pick Wizard needs bracket data")
                     ELSE last_error
    /\ op' = "start_pick_wizard"
    /\ arg' = None
    /\ pre' = cursor
    /\ UNCHANGED << tournament, current_round, view_round, selected_region,
                    selected_game, scroll_offset >>

\* App::load_compare_sources, as far as the bracket state and last_error go:
\* without a tournament the comparison is refused with an error.
load_compare_sources ==
    /\ last_error' = IF tournament = None THEN Some("Compare needs bracket data")
                     ELSE last_error
    /\ op' = "load_compare_sources"
    /\ arg' = None
    /\ pre' = cursor
    /\ UNCHANGED << tournament, current_round, view_round, selected_region,
                    selected_game, scroll_offset >>

(***************************************************************************)
(* The tasks of main.rs: the UI loop, the network worker with its spinner  *)
(* tasks and the periodic refresher, over the bounded request and response *)
(* channels. A task blocked in send().await stays at its send step until   *)
(* the channel has room.                                                   *)
(***************************************************************************)
VARIABLES
    requests,         \* mpsc channel of NetworkRequest (main.rs, network_req_tx/rx)
    responses,        \* mpsc channel of NetworkResponse (network_resp_tx/rx)
    ui_pc,            \* UI loop: "select" (in tokio::select!) or "send" (in send().await)
    ui_req,           \* the NetworkRequest the UI loop is sending, else "none"
    app_started,      \* UiEvent::AppStarted has been handled
    loading,          \* main_ui_loop's LoadingState.is_loading
    worker_pc,        \* NetworkWorker::run: recv, start_send, handle, stop_send, result_send
    worker_req,       \* the request the worker is handling, else "none"
    worker_result,    \* the response the worker is about to send, else None
    is_loading,       \* NetworkWorker.is_loading (AtomicBool)
    spin_tick,        \* spinner tasks at interval.tick().await
    spin_send,        \* spinner tasks at responses.send().await
    refreshes,        \* RefreshScores requests the refresher has sent
    loaded,           \* history: the tournament of the BracketLoaded handled, else None
    sent,             \* history: the batches of the BracketUpdated the worker has sent
    arrived,          \* history: the batches of the BracketUpdated the UI loop has handled
    presses           \* the key presses handled so far

netVars == << requests, responses, ui_pc, ui_req, app_started, loading, worker_pc,
              worker_req, worker_result, is_loading, spin_tick, spin_send, refreshes,
              loaded, sent, arrived, presses >>

\* NetworkResponse values: the variant and what it carries.
Response(type, payload) == [type |-> type, payload |-> payload]

\* Sender::send: the message goes to the back of the queue.
ChanSend(channel, message) == Append(channel, message)

\* Sender::send completes only while the channel holds fewer than its capacity.
HasRoom(channel) == Len(channel) < ChanCap

InitNet ==
    /\ requests = << >>
    /\ responses = << >>
    /\ ui_pc = "select"
    /\ ui_req = "none"
    /\ app_started = FALSE
    /\ loading = FALSE
    /\ worker_pc = "recv"
    /\ worker_req = "none"
    /\ worker_result = None
    /\ is_loading = FALSE
    /\ spin_tick = 0
    /\ spin_send = 0
    /\ refreshes = 0
    /\ loaded = None
    /\ sent = << >>
    /\ arrived = << >>
    /\ presses = 0

uiVars == << ui_pc, ui_req, app_started, loading, loaded, arrived >>
workerVars == << worker_pc, worker_req, worker_result, is_loading, spin_tick, spin_send,
                 sent >>

\* The tail of the handlers that send LoadGameDetail when a game is selected.
SendDetailIfSelected ==
    IF IsSome(selected_game_id_of(tournament', view_round', selected_region',
                                  selected_game'))
    THEN /\ ui_pc' = "send"
         /\ ui_req' = "LoadGameDetail"
    ELSE UNCHANGED << ui_pc, ui_req >>

\* handle_ui_event, UiEvent::AppStarted
UiAppStarted ==
    /\ ui_pc = "select"
    /\ ~app_started
    /\ app_started' = TRUE
    /\ ui_pc' = "send"
    /\ ui_req' = "LoadBracket"
    /\ UNCHANGED << navVars, requests, responses, loading, loaded, arrived, workerVars,
                    refreshes, presses >>

\* handle_key_bindings, Down on the bracket tab
UiKeyDown ==
    /\ ui_pc = "select"
    /\ presses < MaxPresses
    /\ presses' = presses + 1
    /\ navigate_game_down
    /\ SendDetailIfSelected
    /\ UNCHANGED << requests, responses, app_started, loading, loaded, arrived,
                    workerVars, refreshes >>

\* handle_key_bindings, Up on the bracket tab
UiKeyUp ==
    /\ ui_pc = "select"
    /\ presses < MaxPresses
    /\ presses' = presses + 1
    /\ navigate_game_up
    /\ SendDetailIfSelected
    /\ UNCHANGED << requests, responses, app_started, loading, loaded, arrived,
                    workerVars, refreshes >>

\* network_requests.send(request).await of the UI loop
UiSendRequest ==
    /\ ui_pc = "send"
    /\ HasRoom(requests)
    /\ requests' = ChanSend(requests, ui_req)
    /\ ui_pc' = "select"
    /\ ui_req' = "none"
    /\ UNCHANGED << navVars, responses, app_started, loading, loaded, arrived,
                    workerVars, refreshes, presses >>

\* The UI loop takes the next response in tokio::select!.
UiTakes(type) ==
    /\ ui_pc = "select"
    /\ responses # << >>
    /\ Head(responses).type = type
    /\ responses' = Tail(responses)

\* handle_network_response, LoadingStateChanged
UiLoadingStateChanged ==
    /\ UiTakes("LoadingStateChanged")
    /\ loading' = Head(responses).payload
    /\ UNCHANGED << navVars, requests, ui_pc, ui_req, app_started, loaded, arrived,
                    workerVars, refreshes, presses >>

\* handle_network_response, BracketLoaded
UiBracketLoaded ==
    /\ UiTakes("BracketLoaded")
    /\ load(Head(responses).payload)
    /\ loaded' = Some(Head(responses).payload)
    /\ SendDetailIfSelected
    /\ UNCHANGED << requests, app_started, loading, arrived, workerVars, refreshes, presses >>

\* handle_network_response, BracketUpdated
UiBracketUpdated ==
    /\ UiTakes("BracketUpdated")
    /\ merge_updates(Head(responses).payload)
    /\ arrived' = Append(arrived, Head(responses).payload)
    /\ SendDetailIfSelected
    /\ UNCHANGED << requests, app_started, loading, loaded, workerVars, refreshes, presses >>

\* App::on_game_detail_loaded, as far as the bracket state goes
on_game_detail_loaded ==
    /\ last_error' = None
    /\ op' = "on_game_detail_loaded"
    /\ arg' = None
    /\ pre' = cursor
    /\ UNCHANGED << tournament, current_round, view_round, selected_region,
                    selected_game, scroll_offset >>

\* handle_network_response, GameDetailLoaded
UiGameDetailLoaded ==
    /\ UiTakes("GameDetailLoaded")
    /\ on_game_detail_loaded
    /\ UNCHANGED << requests, uiVars, workerVars, refreshes, presses >>

\* handle_network_response, Error
UiError ==
    /\ UiTakes("Error")
    /\ on_error(Head(responses).payload)
    /\ UNCHANGED << requests, uiVars, workerVars, refreshes, presses >>

\* NetworkWorker::run: requests.recv() and the store(true) of
\* start_loading_animation.
WorkerRecv ==
    /\ worker_pc = "recv"
    /\ requests # << >>
    /\ worker_req' = Head(requests)
    /\ requests' = Tail(requests)
    /\ is_loading' = TRUE
    /\ worker_pc' = "start_send"
    /\ UNCHANGED << navVars, responses, uiVars, worker_result, spin_tick, spin_send,
                    sent, refreshes, presses >>

\* start_loading_animation: the first LoadingStateChanged, then the spinner
\* task is spawned.
WorkerStartSend ==
    /\ worker_pc = "start_send"
    /\ HasRoom(responses)
    /\ responses' = ChanSend(responses, Response("LoadingStateChanged", TRUE))
    /\ spin_tick' = spin_tick + 1
    /\ worker_pc' = "handle"
    /\ UNCHANGED << navVars, requests, uiVars, worker_req, worker_result, is_loading,
                    spin_send, sent, refreshes, presses >>

\* The tournaments a bracket load may return: two games of one round, the
\* second with an id of its own or, as the normalizers copy the ids of the
\* wire data and give every matchup without one the empty id, with the id of
\* the first.
NetTournaments ==
    { Tournament(<< Region("East", << Round("First",
          << Game(1, "Scheduled", 0), Game(id, "Scheduled", 0) >>) >>) >>) :
        id \in {1, 2} }

\* The batches a score refresh may return: one update of game 1.
NetBatches == { << Game(1, status, 1) >> : status \in {"InProgress", "Final"} }

\* The responses a request may end in: its result, or Error.
ResultsOf(request) ==
    { Response("Error", "network error") } \cup
    CASE request = "LoadBracket" ->
            { Response("BracketLoaded", t) : t \in NetTournaments }
      [] request = "RefreshScores" ->
            { Response("BracketUpdated", games) : games \in NetBatches }
      [] request = "RefreshPrizePoolBalance" ->
            { Response("PrizePoolBalanceUpdated", 0) }
      [] request = "LoadGameDetail" -> { Response("GameDetailLoaded", 0) }

\* The handler of the request returns, and stop_loading_animation stores
\* false.
WorkerHandle ==
    /\ worker_pc = "handle"
    /\ \E result \in ResultsOf(worker_req) : worker_result' = Some(result)
    /\ is_loading' = FALSE
    /\ worker_pc' = "stop_send"
    /\ UNCHANGED << navVars, requests, responses, uiVars, worker_req, spin_tick,
                    spin_send, sent, refreshes, presses >>

\* stop_loading_animation: the last LoadingStateChanged
WorkerStopSend ==
    /\ worker_pc = "stop_send"
    /\ HasRoom(responses)
    /\ responses' = ChanSend(responses, Response("LoadingStateChanged", FALSE))
    /\ worker_pc' = "result_send"
    /\ UNCHANGED << navVars, requests, uiVars, worker_req, worker_result, is_loading,
                    spin_tick, spin_send, sent, refreshes, presses >>

\* NetworkWorker::run: responses.send(response)
WorkerResultSend ==
    /\ worker_pc = "result_send"
    /\ HasRoom(responses)
    /\ responses' = ChanSend(responses, Unwrap(worker_result))
    /\ sent' = IF Unwrap(worker_result).type = "BracketUpdated"
               THEN Append(sent, Unwrap(worker_result).payload)
               ELSE sent
    /\ worker_pc' = "recv"
    /\ worker_req' = "none"
    /\ worker_result' = None
    /\ UNCHANGED << navVars, requests, uiVars, is_loading, spin_tick, spin_send,
                    refreshes, presses >>

\* A spinner task after interval.tick(): it ends when is_loading is false.
SpinnerTick ==
    /\ spin_tick > 0
    /\ spin_tick' = spin_tick - 1
    /\ spin_send' = IF is_loading THEN spin_send + 1 ELSE spin_send
    /\ UNCHANGED << navVars, requests, responses, uiVars, worker_pc, worker_req,
                    worker_result, is_loading, sent, refreshes, presses >>

\* A spinner task sends its LoadingStateChanged and waits for the next tick.
SpinnerSend ==
    /\ spin_send > 0
    /\ HasRoom(responses)
    /\ responses' = ChanSend(responses, Response("LoadingStateChanged", TRUE))
    /\ spin_send' = spin_send - 1
    /\ spin_tick' = spin_tick + 1
    /\ UNCHANGED << navVars, requests, uiVars, worker_pc, worker_req, worker_result,
                    is_loading, sent, refreshes, presses >>

\* PeriodicRefresher::run: a RefreshScores every 30 seconds, the first one 30
\* seconds after the start, when the LoadBracket of AppStarted has long been
\* sent.
RefresherSend ==
    /\ app_started
    /\ ui_req # "LoadBracket"
    /\ refreshes < MaxRefresh
    /\ HasRoom(requests)
    /\ requests' = ChanSend(requests, "RefreshScores")
    /\ refreshes' = refreshes + 1
    /\ UNCHANGED << navVars, responses, uiVars, workerVars, presses >>

(***************************************************************************)
(* The layout engine of one regional bracket (components/bracket.rs).      *)
(* u16 arithmetic wraps at 2^16.                                           *)
(***************************************************************************)
u16(x) == x % U16Range

\* Slot heights: SH[0] = GAME_HEIGHT; SH[d] = 2 * SH[d-1] + 1.
RECURSIVE SH(_)
SH(d) == IF d = 0 THEN GAME_HEIGHT ELSE 2 * SH(d - 1) + 1

REGION_HEIGHT == SH(3)

\* A faulty variant of layout_cell_width: no lower clamp.
layout_cell_width_unclamped(terminal_width) ==
    LET per_col == saturating_sub(terminal_width, u16(CONNECTOR_WIDTH * 3)) \div 4
    IN  IF per_col < CELL_W_FULL THEN per_col ELSE CELL_W_FULL

\* compute_inner: per_col.max(1).min(CELL_W_FULL)
layout_cell_width(terminal_width) ==
    LET per_col == saturating_sub(terminal_width, u16(CONNECTOR_WIDTH * 3)) \div 4
        at_least_1 == Max2(per_col, 1)
    IN  IF at_least_1 < CELL_W_FULL THEN at_least_1 ELSE CELL_W_FULL

\* A faulty variant of layout_round_cols: the columns are never reversed.
layout_round_cols_unmirrored(stride, is_mirrored) ==
    << 0, stride, u16(stride * 2), u16(stride * 3) >>

\* compute_inner: round_cols, by depth 0..3 (index depth + 1)
layout_round_cols(stride, is_mirrored) ==
    IF is_mirrored THEN << u16(stride * 3), u16(stride * 2), stride, 0 >>
    ELSE << 0, stride, u16(stride * 2), u16(stride * 3) >>

first_center(d) == SH(d) \div 2

\* A faulty variant of spacing: the spacing of the first round at every depth.
spacing_of_first_round(d) == SH(1) - SH(0)

\* compute_inner: spacing = [SH[1]-SH[0], SH[2]-SH[1], SH[3]-SH[2], 0]
spacing(d) == IF d < 3 THEN SH(d + 1) - SH(d) ELSE 0

game_counts == << 8, 4, 2, 1 >>
round_kinds == << "First", "Second", "Sweet16", "Elite8" >>

GameCell(center_row, col, cell_width, draw_outbound_connector, round, game_idx) ==
    [center_row |-> center_row, col |-> col, cell_width |-> cell_width,
     draw_outbound_connector |-> draw_outbound_connector, round |-> round,
     game_idx |-> game_idx]

\* The cells of depth d, games 0 .. game_counts[d] - 1 (the inner loop).
CellsOfDepth(d, cols, cell_width, is_flipped) ==
    [k \in 1..game_counts[d + 1] |->
        LET i == k - 1
            center_normal == u16(first_center(d) + u16(i * spacing(d)))
            center_row == IF is_flipped THEN u16((REGION_HEIGHT - 1) - center_normal)
                          ELSE center_normal
        IN  GameCell(center_row, cols[d + 1], cell_width, d < 3, round_kinds[d + 1], i)]

\* BracketGrid::compute_inner
compute_inner(terminal_width, is_mirrored, is_flipped) ==
    LET cell_width == layout_cell_width(terminal_width)
        stride == u16(cell_width + CONNECTOR_WIDTH)
        cols == layout_round_cols(stride, is_mirrored)
    IN  [cells |-> CellsOfDepth(0, cols, cell_width, is_flipped)
                   \o CellsOfDepth(1, cols, cell_width, is_flipped)
                   \o CellsOfDepth(2, cols, cell_width, is_flipped)
                   \o CellsOfDepth(3, cols, cell_width, is_flipped),
         round_cols |-> cols,
         total_width |-> u16(u16(stride * 3) + cell_width),
         total_height |-> REGION_HEIGHT,
         cell_width |-> cell_width,
         mirrored |-> is_mirrored,
         flipped |-> is_flipped]

\* BracketGrid::cells_for_depth; empty when the Vec is too short for the
\* slice (the code would panic).
OFFSETS == << 0, 8, 12, 14, 15 >>
cells_for_depth(grid, depth) ==
    IF Len(grid.cells) < OFFSETS[depth + 2] THEN << >>
    ELSE SubSeq(grid.cells, OFFSETS[depth + 1] + 1, OFFSETS[depth + 2])

VARIABLES
    terminal_width,   \* the width the grids are computed for
    grids             \* the grid computed by each constructor, None before

layoutVars == << terminal_width, grids >>

Variants == {"compute", "compute_mirrored", "compute_flipped", "compute_flipped_mirrored"}

\* No layout in progress.
InitLayoutIdle ==
    /\ terminal_width = 0
    /\ grids = [v \in Variants |-> None]

Computes(variant, is_mirrored, is_flipped) ==
    /\ grids[variant] = None
    /\ grids' = [grids EXCEPT
                   ![variant] = Some(compute_inner(terminal_width, is_mirrored, is_flipped))]
    /\ UNCHANGED terminal_width

\* BracketGrid::compute
compute == Computes("compute", FALSE, FALSE)

\* BracketGrid::compute_mirrored
compute_mirrored == Computes("compute_mirrored", TRUE, FALSE)

\* BracketGrid::compute_flipped
compute_flipped == Computes("compute_flipped", FALSE, TRUE)

\* BracketGrid::compute_flipped_mirrored
compute_flipped_mirrored == Computes("compute_flipped_mirrored", TRUE, TRUE)

(***************************************************************************)
(* api/src/client.rs: the provider chain of NcaaApi::fetch_tournament and  *)
(* the functions it is built from.  A string is the sequence of its        *)
(* characters; Result<T, ApiError> is Ok(v) or Err(e).                     *)
(***************************************************************************)
FALLBACK_BRACKET_YEAR == 2025

Ok(v) == [ok |-> TRUE, value |-> v]
Err(e) == [ok |-> FALSE, error |-> e]

\* The variants of ApiError the chain produces; the payload of Network, Api
\* and Parsing is the url, that of NotFound the message.  A url is the pair
\* of the source and the year asked for, a message the pair of its text and
\* the year or path it names.
Network(url) == [kind |-> "Network", of |-> url]
Api(url) == [kind |-> "Api", of |-> url]
Parsing(url) == [kind |-> "Parsing", of |-> url]
NotFound(msg) == [kind |-> "NotFound", of |-> msg]

UpperCase == << "A", "B", "C", "D", "E", "F", "G", "H", "I", "J", "K", "L", "M",
                "N", "O", "P", "Q", "R", "S", "T", "U", "V", "W", "X", "Y", "Z" >>
LowerCase == << "a", "b", "c", "d", "e", "f", "g", "h", "i", "j", "k", "l", "m",
                "n", "o", "p", "q", "r", "s", "t", "u", "v", "w", "x", "y", "z" >>

\* str::to_lowercase, on ASCII text
to_lowercase(s) ==
    [i \in 1..Len(s) |->
        IF \E k \in 1..26 : UpperCase[k] = s[i]
        THEN LowerCase[CHOOSE k \in 1..26 : UpperCase[k] = s[i]]
        ELSE s[i]]

\* str::contains
contains(s, pat) ==
    \E i \in 0..(Len(s) - Len(pat)) : SubSeq(s, i + 1, i + Len(pat)) = pat

\* espn::TournamentEntry; bracket is an Option<Bracket>, a Bracket's rounds an
\* Option<Vec<EspnRound>>.
TournamentEntry(id, name, bracket) == [id |-> id, name |-> name, bracket |-> bracket]
Bracket(rounds) == [rounds |-> rounds]

\* The closure has_bracket of select_tournament_entry
has_bracket(t) ==
    IF t.bracket = None THEN FALSE
    ELSE IF Unwrap(t.bracket).rounds = None THEN FALSE
    ELSE Unwrap(Unwrap(t.bracket).rounds) # << >>

\* A faulty variant of name_match: the names of the other tournaments are not
\* excluded.
name_match_without_exclusions(t) ==
    LET n == to_lowercase(IF t.name = None THEN << >> ELSE Unwrap(t.name))
    IN  \/ contains(n, << "n", "c", "a", "a" >>)
        \/ contains(n, << "m", "a", "r", "c", "h" >>)
        \/ contains(n, << "c", "h", "a", "m", "p", "i", "o", "n", "s", "h", "i", "p" >>)
        \/ contains(n, << "t", "o", "u", "r", "n", "a", "m", "e", "n", "t" >>)

\* The closure name_match of select_tournament_entry
name_match(t) ==
    LET n == to_lowercase(IF t.name = None THEN << >> ELSE Unwrap(t.name))
    IN  /\ \/ contains(n, << "n", "c", "a", "a" >>)
           \/ contains(n, << "m", "a", "r", "c", "h" >>)
           \/ contains(n, << "c", "h", "a", "m", "p", "i", "o", "n", "s", "h", "i", "p" >>)
           \/ contains(n, << "t", "o", "u", "r", "n", "a", "m", "e", "n", "t" >>)
        /\ ~ contains(n, << "n", "i", "t" >>)
        /\ ~ contains(n, << "i", "n", "v", "i", "t", "a", "t", "i", "o", "n", "a", "l" >>)

\* Iterator::position of the entries with a bracket and a matching name, and
\* of those with a bracket: the first index, 0 for None.
position_bracket_and_name(entries) ==
    IF \E i \in 1..Len(entries) : has_bracket(entries[i]) /\ name_match(entries[i])
    THEN CHOOSE i \in 1..Len(entries) :
            /\ has_bracket(entries[i]) /\ name_match(entries[i])
            /\ \A j \in 1..(i - 1) : ~ (has_bracket(entries[j]) /\ name_match(entries[j]))
    ELSE 0

position_bracket(entries) ==
    IF \E i \in 1..Len(entries) : has_bracket(entries[i])
    THEN CHOOSE i \in 1..Len(entries) :
            /\ has_bracket(entries[i])
            /\ \A j \in 1..(i - 1) : ~ has_bracket(entries[j])
    ELSE 0

\* select_tournament_entry; Vec::swap_remove(idx) returns the element at idx.
select_tournament_entry(entries, year) ==
    IF entries = << >>
    THEN Err(NotFound(<< "no tournaments returned for year", year >>))
    ELSE IF position_bracket_and_name(entries) # 0
    THEN Ok(entries[position_bracket_and_name(entries)])
    ELSE IF position_bracket(entries) # 0
    THEN Ok(entries[position_bracket(entries)])
    ELSE Err(NotFound(<< "NCAA tournament bracket not found for year", year >>))

\* A faulty variant of season_tournament_year: November is left in the
\* calendar year.
season_tournament_year_from_december(now) ==
    IF now.month > 11 THEN now.year + 1 ELSE now.year

\* season_tournament_year; now is the UTC date, [year, month].
season_tournament_year(now) ==
    IF now.month >= 11 THEN now.year + 1 ELSE now.year

\* slice::sort_unstable on integers: the ascending permutation.
RECURSIVE sort_unstable(_)
sort_unstable(v) ==
    IF v = << >> THEN << >>
    ELSE LET k == CHOOSE i \in 1..Len(v) : \A j \in 1..Len(v) : v[i] <= v[j]
         IN  << v[k] >> \o sort_unstable(SubSeq(v, 1, k - 1) \o SubSeq(v, k + 1, Len(v)))

\* Vec::dedup: of consecutive equal elements the first is kept.
RECURSIVE dedup(_)
dedup(v) ==
    IF Len(v) <= 1 THEN v
    ELSE IF v[Len(v)] = v[Len(v) - 1] THEN dedup(SubSeq(v, 1, Len(v) - 1))
    ELSE dedup(SubSeq(v, 1, Len(v) - 1)) \o << v[Len(v)] >>

\* i32::abs
abs(x) == IF x < 0 THEN -x ELSE x

\* The comparator of the sort_by of candidate_tournament_years: a before b.
nearer(a, b, season_year) ==
    \/ abs(a - season_year) < abs(b - season_year)
    \/ abs(a - season_year) = abs(b - season_year) /\ a < b

\* slice::sort_by with that comparator, a stable sort: each element is
\* inserted after the elements that are not after it.
RECURSIVE sort_by(_, _)
sort_by(v, season_year) ==
    IF v = << >> THEN << >>
    ELSE LET rest == sort_by(SubSeq(v, 1, Len(v) - 1), season_year)
             x == v[Len(v)]
             n == Cardinality({i \in 1..Len(rest) : ~ nearer(x, rest[i], season_year)})
         IN  SubSeq(rest, 1, n) \o << x >> \o SubSeq(rest, n + 1, Len(rest))

\* A faulty variant of candidate_tournament_years: the years are left in
\* ascending order.
candidate_tournament_years_ascending(now) ==
    LET season_year == season_tournament_year(now)
    IN  dedup(sort_unstable(<< season_year, season_year - 1, season_year + 1,
                               FALLBACK_BRACKET_YEAR >>))

\* candidate_tournament_years
candidate_tournament_years(now) ==
    LET season_year == season_tournament_year(now)
        years == << season_year, season_year - 1, season_year + 1, 2025 >>
    IN  sort_by(dedup(sort_unstable(years)), season_year)

\* The answer of the network to one request: no answer (the transport
\* failed), or a status and a body, the body None when it does not decode as
\* the type asked for and Some(v) when it decodes as v.
NoAnswer == [sent |-> FALSE]
Answer(status, body) == [sent |-> TRUE, status |-> status, body |-> body]

\* StatusCode::is_client_error, StatusCode::is_server_error
is_client_error(status) == 400 <= status /\ status <= 499
is_server_error(status) == 500 <= status /\ status <= 599

\* NcaaApi::get, of the answer to the request; Response::error_for_status
\* is an error when the status is a client or a server error.
get(response, url, default) ==
    IF ~ response.sent THEN Err(Network(url))
    ELSE IF is_client_error(response.status) \/ is_server_error(response.status)
    THEN IF is_client_error(response.status) THEN Ok(default) ELSE Err(Api(url))
    ELSE IF response.body = None THEN Err(Parsing(url))
    ELSE Ok(Unwrap(response.body))

\* henrygd::HenrygdResponse, HenrygdChampionship and their defaults
HenrygdResponse(championships) == [championships |-> championships]
HenrygdChampionship(title, games) == [title |-> title, games |-> games]
HenrygdResponse_default == HenrygdResponse(<< >>)

\* espn::TournamentsResponse and its default
TournamentsResponse(tournaments) == [tournaments |-> tournaments]
TournamentsResponse_default == TournamentsResponse(None)

\* Option::unwrap_or_default of the tournaments of a response
unwrap_or_default(tournaments) == IF tournaments = None THEN << >> ELSE Unwrap(tournaments)

Digits == << "0", "1", "2", "3", "4", "5", "6", "7", "8", "9" >>
is_ascii_digit(c) == \E k \in 1..10 : Digits[k] = c
digit_value(c) == (CHOOSE k \in 1..10 : Digits[k] = c) - 1

\* str::split on the characters that are not digits: the tokens, in order.
RECURSIVE split_digits(_)
split_digits(path) ==
    IF \A i \in 1..Len(path) : is_ascii_digit(path[i]) THEN << path >>
    ELSE LET k == CHOOSE i \in 1..Len(path) :
                    /\ ~ is_ascii_digit(path[i])
                    /\ \A j \in 1..(i - 1) : is_ascii_digit(path[j])
         IN  << SubSeq(path, 1, k - 1) >> \o split_digits(SubSeq(path, k + 1, Len(path)))

\* infer_year_from_path: the first token of four digits, when it is a year
\* of 2000..=2100.
infer_year_from_path(path) ==
    LET tokens == split_digits(path)
    IN  IF \A i \in 1..Len(tokens) : Len(tokens[i]) # 4 THEN None
        ELSE LET t == tokens[CHOOSE i \in 1..Len(tokens) :
                                /\ Len(tokens[i]) = 4
                                /\ \A j \in 1..(i - 1) : Len(tokens[j]) # 4]
                 y == 1000 * digit_value(t[1]) + 100 * digit_value(t[2])
                      + 10 * digit_value(t[3]) + digit_value(t[4])
             IN  IF 2000 <= y /\ y <= 2100 THEN Some(y) ELSE None

\* str::trim followed by is_empty
\* The characters with the Unicode property White_Space, which str::trim
\* strips: U+0009..U+000D, U+0020, U+0085, U+00A0, U+1680, U+2000..U+200A,
\* U+2028, U+2029, U+202F, U+205F and U+3000. A character of a path is a
\* string: an ASCII character is the string of that character alone (U+000B
\* stands between the quotes of the second line), and a character beyond
\* ASCII is the string of its code point, "U+00E9" for U+00E9.
White_Space ==
    { " ", "\t", "\n", "\r", "\f",
      "", "U+0085", "U+00A0", "U+1680",
      "U+2000", "U+2001", "U+2002", "U+2003", "U+2004", "U+2005", "U+2006", "U+2007",
      "U+2008", "U+2009", "U+200A", "U+2028", "U+2029", "U+202F", "U+205F", "U+3000" }
is_blank(path) == \A i \in 1..Len(path) : path[i] \in White_Space

\* The bracket a normalizer (map_tournament, map_ncaa_championship) makes of
\* its arguments.
Normalized(normalizer, args) == [by |-> normalizer, args |-> args]

\* FALLBACK_BRACKET_JSON, the snapshot compiled into the program with
\* include_str!, as serde_json reads it: None if it were not a
\* TournamentsResponse, Some(response). The test
\* embedded_fallback_tournament_parses asserts that
\* load_embedded_fallback_tournament makes a tournament of 2025 with regions
\* of it: it is a document with an entry select_tournament_entry takes.
FALLBACK_BRACKET_JSON ==
    Some(TournamentsResponse(Some(
        << TournamentEntry(1, Some(<< "N", "C", "A", "A" >>),
                           Some(Bracket(Some(<< 1 >>)))) >>)))

VARIABLES
    now,               \* Utc::now(): what the clock reads at the first and
                       \* at the second call, << [year, month], [year, month] >>
    env_path,          \* MMTUI_BRACKET_JSON: None when unset, Some(path)
    file,              \* the file at that path: [readable, document], the
                       \* document None when it is not a TournamentsResponse
    fetch_pc,          \* "start", "secondary", "done"
    years_left,        \* the candidate years the for loop has not visited
    chain_last_error,  \* the local last_error of fetch_tournament
    fetch_result,      \* None until fetch_tournament returns, Some(result)
    queried,           \* the sources asked so far, in order
    encountered        \* the errors met so far, in order, discarded or not

fetchVars == << now, env_path, file, fetch_pc, years_left, chain_last_error,
                fetch_result, queried, encountered >>

\* No fetch in progress.
InitFetchIdle ==
    /\ now = << [year |-> 2026, month |-> 2], [year |-> 2026, month |-> 2] >>
    /\ env_path = None
    /\ file = [readable |-> FALSE, document |-> None]
    /\ fetch_pc = "done"
    /\ years_left = << >>
    /\ chain_last_error = None
    /\ fetch_result = None
    /\ queried = << >>
    /\ encountered = << >>

fetchInputs == << now, env_path, file >>

Asked(source, year, response, result) ==
    [source |-> source, year |-> year, response |-> response, result |-> result]

\* The condition `if let Ok(path) = env::var(..) && !path.trim().is_empty()`
override_configured == env_path # None /\ ~ is_blank(Unwrap(env_path))

\* fetch_tournament, the branch of the local override: each `?` returns the
\* error to the caller. The clock is read once, for a path without a year.
fetch_override ==
    /\ fetch_pc = "start"
    /\ override_configured
    /\ LET path == Unwrap(env_path)
           inferred == infer_year_from_path(path)
           year == IF inferred = None THEN season_tournament_year(now[1]) ELSE Unwrap(inferred)
           result ==
               IF ~ file.readable THEN Err(NotFound(<< "could not read", path >>))
               ELSE IF file.document = None
               THEN Err(NotFound(<< "invalid tournament json at", path >>))
               ELSE LET entry == select_tournament_entry(
                                     unwrap_or_default(Unwrap(file.document).tournaments), year)
                    IN  IF entry.ok
                        THEN Ok(Normalized("map_tournament", << entry.value, year >>))
                        ELSE entry
       IN  /\ fetch_result' = Some(result)
           /\ queried' = Append(queried, Asked("override", year, file, result))
           /\ encountered' = IF result.ok THEN encountered
                             ELSE Append(encountered, result.error)
    /\ fetch_pc' = "done"
    /\ UNCHANGED << fetchInputs, years_left, chain_last_error >>

\* A faulty variant of primary_championship: any championship with games is
\* taken.
primary_championship_any(raw) ==
    IF \E i \in 1..Len(raw.championships) : raw.championships[i].games # << >>
    THEN Some(raw.championships[CHOOSE i \in 1..Len(raw.championships) :
                                    raw.championships[i].games # << >>])
    ELSE None

\* The championship fetch_tournament takes of the primary response: the first
\* one, when it has games.
primary_championship(raw) ==
    IF raw.championships = << >> THEN None
    ELSE IF raw.championships[1].games # << >> THEN Some(raw.championships[1])
    ELSE None

\* fetch_tournament, from the request to the primary source to the start of
\* the for loop over the candidate years; an error of get is dropped. The
\* clock is read for the season year before the request and, when the request
\* gave no bracket, again for the candidate years after it.
fetch_primary(response) ==
    /\ fetch_pc = "start"
    /\ ~ override_configured
    /\ LET season_year == season_tournament_year(now[1])
           raw == get(response, << "primary", season_year >>, HenrygdResponse_default)
           champ == IF raw.ok THEN primary_championship(raw.value) ELSE None
       IN  /\ queried' = Append(queried, Asked("primary", season_year, response, raw))
           /\ encountered' = IF raw.ok THEN encountered ELSE Append(encountered, raw.error)
           /\ IF champ # None
              THEN /\ fetch_result' = Some(Ok(Normalized("map_ncaa_championship",
                                                         << Unwrap(champ) >>)))
                   /\ fetch_pc' = "done"
                   /\ UNCHANGED years_left
              ELSE /\ years_left' = candidate_tournament_years(now[2])
                   /\ fetch_pc' = "secondary"
                   /\ UNCHANGED fetch_result
    /\ chain_last_error' = None
    /\ UNCHANGED fetchInputs

\* `last_error = Some(e)` of the for loop: the error of the year replaces the
\* error kept so far.
record_error(result, previous) == Some(result.error)

\* fetch_tournament, one iteration of the for loop over the candidate years.
fetch_secondary(response) ==
    /\ fetch_pc = "secondary"
    /\ years_left # << >>
    /\ LET year == Head(years_left)
           raw == get(response, << "secondary", year >>, TournamentsResponse_default)
           entry == IF raw.ok
                    THEN select_tournament_entry(unwrap_or_default(raw.value.tournaments), year)
                    ELSE raw
       IN  /\ queried' = Append(queried, Asked("secondary", year, response, raw))
           /\ encountered' = IF entry.ok THEN encountered ELSE Append(encountered, entry.error)
           /\ IF entry.ok
              THEN /\ fetch_result' = Some(Ok(Normalized("map_tournament",
                                                         << entry.value, year >>)))
                   /\ fetch_pc' = "done"
                   /\ UNCHANGED << years_left, chain_last_error >>
              ELSE /\ chain_last_error' = record_error(entry, chain_last_error)
                   /\ years_left' = Tail(years_left)
                   /\ UNCHANGED << fetch_result, fetch_pc >>
    /\ UNCHANGED fetchInputs

\* load_embedded_fallback_tournament
load_embedded_fallback_tournament ==
    IF FALLBACK_BRACKET_JSON = None
    THEN Err(NotFound(<< "invalid embedded fallback bracket json", FALLBACK_BRACKET_YEAR >>))
    ELSE LET entry == select_tournament_entry(
                          unwrap_or_default(Unwrap(FALLBACK_BRACKET_JSON).tournaments),
                          FALLBACK_BRACKET_YEAR)
         IN  IF entry.ok
             THEN Ok(Normalized("map_tournament", << entry.value, FALLBACK_BRACKET_YEAR >>))
             ELSE entry

\* The error fetch_tournament returns when no source gave a bracket:
\* last_error.unwrap_or_else(generic NotFound).
exhausted(kept) ==
    IF kept = None
    THEN Err(NotFound(<< "NCAA Tournament not found in current/adjacent years" >>))
    ELSE Err(Unwrap(kept))

\* fetch_tournament, after the for loop: the embedded snapshot, whose error
\* is dropped, then the error kept by the loop.
fetch_embedded ==
    /\ fetch_pc = "secondary"
    /\ years_left = << >>
    /\ LET snapshot == load_embedded_fallback_tournament
       IN  /\ queried' = Append(queried, Asked("embedded", FALLBACK_BRACKET_YEAR,
                                               FALLBACK_BRACKET_JSON, snapshot))
           /\ encountered' = IF snapshot.ok THEN encountered
                             ELSE Append(encountered, snapshot.error)
           /\ fetch_result' = IF snapshot.ok THEN Some(snapshot)
                              ELSE Some(exhausted(chain_last_error))
    /\ fetch_pc' = "done"
    /\ UNCHANGED << fetchInputs, years_left, chain_last_error >>

VARIABLES
    entries_in,   \* the entries select_tournament_entry is applied to
    year_in,      \* and the year
    selected      \* None before the call, Some(result)

selectVars == << entries_in, year_in, selected >>

\* No selection in progress.
InitSelectIdle ==
    /\ entries_in = << >>
    /\ year_in = FALLBACK_BRACKET_YEAR
    /\ selected = None

\* One call of select_tournament_entry.
select ==
    /\ selected = None
    /\ selected' = Some(select_tournament_entry(entries_in, year_in))
    /\ UNCHANGED << entries_in, year_in >>

VARIABLES
    date_in,      \* the date the two functions of the years are applied to
    candidates,   \* None before the call, Some(years)
    season        \* None before the call, Some(year)

yearsVars == << date_in, candidates, season >>

\* No computation of the years in progress.
InitYearsIdle ==
    /\ date_in = [year |-> 2026, month |-> 2]
    /\ candidates = None
    /\ season = None

\* One call of candidate_tournament_years.
candidate_years ==
    /\ candidates = None
    /\ candidates' = Some(candidate_tournament_years(date_in))
    /\ UNCHANGED << date_in, season >>

\* One call of season_tournament_year.
season_year ==
    /\ season = None
    /\ season' = Some(season_tournament_year(date_in))
    /\ UNCHANGED << date_in, candidates >>

apiVars == << fetchVars, selectVars, yearsVars >>
InitApiIdle == InitFetchIdle /\ InitSelectIdle /\ InitYearsIdle

(***************************************************************************)
(* api/src/client.rs: the normalizers of the two wire shapes.  Ids, names, *)
(* states and tags are strings; scores, notes and region titles, whose     *)
(* characters the code looks at, are sequences of characters.              *)
(***************************************************************************)
\* Option::unwrap_or
unwrap_or(o, d) == IF o = None THEN d ELSE Unwrap(o)

\* Team, TeamSeed and TeamSeed::default
Team(id, name, short_name, abbrev, color) ==
    [id |-> id, name |-> name, short_name |-> short_name, abbrev |-> abbrev, color |-> color]
TeamSeed(seed, team, placeholder) == [seed |-> seed, team |-> team, placeholder |-> placeholder]
TeamSeed_default == TeamSeed(0, None, None)

\* The fields of a Game other than id and status.
GameRest(top, bottom, score, winner_id, espn_id, period, clock, start_time, location) ==
    [top |-> top, bottom |-> bottom, score |-> score, winner_id |-> winner_id,
     espn_id |-> espn_id, period |-> period, clock |-> clock, start_time |-> start_time,
     location |-> location]

\* u32::to_string
RECURSIVE to_string(_)
to_string(n) ==
    IF n < 10 THEN << Digits[n + 1] >> ELSE to_string(n \div 10) \o << Digits[(n % 10) + 1] >>

\* henrygd::HenrygdTeam, HenrygdGame
HenrygdTeam(team_id, name, short_name, seed, winner, description) ==
    [team_id |-> team_id, name |-> name, short_name |-> short_name, seed |-> seed,
     winner |-> winner, description |-> description]
HenrygdGame(bracket_position_id, section_id, game_state, teams) ==
    [bracket_position_id |-> bracket_position_id, section_id |-> section_id,
     game_state |-> game_state, teams |-> teams]

\* map_ncaa_team
map_ncaa_team(t) ==
    LET team == IF t.team_id = None THEN None
                ELSE Some(Team(Unwrap(t.team_id), unwrap_or(t.name, ""),
                               IF t.short_name = None THEN unwrap_or(t.name, "")
                               ELSE Unwrap(t.short_name),
                               "", None))
        placeholder == IF team = None
                       THEN IF t.description = None THEN Some("TBA") ELSE t.description
                       ELSE None
    IN  TeamSeed(unwrap_or(t.seed, 0), team, placeholder)

\* Iterator::find of the entries whose winner flag is Some(true): the first
\* index, 0 for None.
find_winner(entries) ==
    IF \E i \in 1..Len(entries) : entries[i].winner = Some(TRUE)
    THEN CHOOSE i \in 1..Len(entries) :
            /\ entries[i].winner = Some(TRUE)
            /\ \A j \in 1..(i - 1) : entries[j].winner # Some(TRUE)
    ELSE 0

\* A faulty variant of ncaa_status: a game in progress counts as scheduled.
ncaa_status_final_only(game_state) ==
    IF game_state = "F" THEN "Final" ELSE "Scheduled"

\* The status map_ncaa_game gives a game state.
ncaa_status(game_state) ==
    CASE game_state = "L" -> "InProgress"
      [] game_state = "F" -> "Final"
      [] OTHER -> "Scheduled"

\* map_ncaa_game
map_ncaa_game(g) ==
    LET tba == TeamSeed(0, None, Some("TBA"))
        top == IF Len(g.teams) >= 1 THEN map_ncaa_team(g.teams[1]) ELSE tba
        bottom == IF Len(g.teams) >= 2 THEN map_ncaa_team(g.teams[2]) ELSE tba
        winner_id == IF find_winner(g.teams) = 0 THEN None
                     ELSE g.teams[find_winner(g.teams)].team_id
    IN  Game(to_string(g.bracket_position_id), ncaa_status(g.game_state),
             GameRest(top, bottom, None, winner_id, None, None, None, None, None))

\* espn::EspnTeam, EspnCompetitor, EspnMatchup, EspnEvent
EspnTeam(id, display_name, short_display_name, abbreviation, color) ==
    [id |-> id, display_name |-> display_name, short_display_name |-> short_display_name,
     abbreviation |-> abbreviation, color |-> color]
EspnCompetitor(id, home_away, team, score, winner, curated_rank, placeholder) ==
    [id |-> id, home_away |-> home_away, team |-> team, score |-> score, winner |-> winner,
     curated_rank |-> curated_rank, placeholder |-> placeholder]
EspnCompetitor_default == EspnCompetitor(None, None, None, None, None, None, None)
EspnMatchup(id, event, competitors, note) ==
    [id |-> id, event |-> event, competitors |-> competitors, note |-> note]
EspnEvent(id, status, competitions, date, venue) ==
    [id |-> id, status |-> status, competitions |-> competitions, date |-> date,
     venue |-> venue]

\* map_competitor; curated_rank is the Option of an EspnRank, [current].
map_competitor(c) ==
    LET seed == IF c.curated_rank = None THEN 0
                ELSE unwrap_or(Unwrap(c.curated_rank).current, 0)
        team == IF c.team = None THEN None
                ELSE LET t == Unwrap(c.team)
                     IN  Some(Team(unwrap_or(t.id, ""), unwrap_or(t.display_name, ""),
                                   IF t.short_display_name = None
                                   THEN unwrap_or(t.display_name, "")
                                   ELSE Unwrap(t.short_display_name),
                                   unwrap_or(t.abbreviation, ""), t.color))
    IN  TeamSeed(seed, team, c.placeholder)

\* Iterator::find of the competitors with a home/away tag: the first index,
\* 0 for None.
find_tagged(competitors, tag) ==
    IF \E i \in 1..Len(competitors) : competitors[i].home_away = Some(tag)
    THEN CHOOSE i \in 1..Len(competitors) :
            /\ competitors[i].home_away = Some(tag)
            /\ \A j \in 1..(i - 1) : competitors[j].home_away # Some(tag)
    ELSE 0

\* The competitor of the top slot: the one tagged home, or else the first.
top_competitor(competitors) ==
    IF find_tagged(competitors, "home") # 0
    THEN Some(competitors[find_tagged(competitors, "home")])
    ELSE IF competitors # << >> THEN Some(competitors[1])
    ELSE None

\* The competitor of the bottom slot: the one tagged away, or else the second.
bottom_competitor(competitors) ==
    IF find_tagged(competitors, "away") # 0
    THEN Some(competitors[find_tagged(competitors, "away")])
    ELSE IF Len(competitors) >= 2 THEN Some(competitors[2])
    ELSE None

\* split_competitors
split_competitors(competitors) ==
    << IF top_competitor(competitors) = None THEN TeamSeed_default
       ELSE map_competitor(Unwrap(top_competitor(competitors))),
       IF bottom_competitor(competitors) = None THEN TeamSeed_default
       ELSE map_competitor(Unwrap(bottom_competitor(competitors))) >>

\* split_competitor_refs
split_competitor_refs(competitors) ==
    << unwrap_or(top_competitor(competitors), EspnCompetitor_default),
       unwrap_or(bottom_competitor(competitors), EspnCompetitor_default) >>

\* str::parse::<u16>().ok() of a sequence of characters: decimal digits after
\* an optional plus sign, of a value within u16.
RECURSIVE decimal(_)
decimal(s) ==
    IF s = << >> THEN 0
    ELSE 10 * decimal(SubSeq(s, 1, Len(s) - 1)) + digit_value(s[Len(s)])

parse_u16(s) ==
    LET digits == IF s # << >> /\ s[1] = "+" THEN Tail(s) ELSE s
    IN  IF digits = << >> THEN None
        ELSE IF \E i \in 1..Len(digits) : ~ is_ascii_digit(digits[i]) THEN None
        ELSE IF decimal(digits) >= U16Range THEN None
        ELSE Some(decimal(digits))

\* Option::zip
zip(a, b) == IF a = None \/ b = None THEN None ELSE Some(<< Unwrap(a), Unwrap(b) >>)

\* The score of a competitor of map_matchup, None for no competitor.
score_of(competitor) ==
    IF competitor = None THEN None
    ELSE IF Unwrap(competitor).score = None THEN None
    ELSE parse_u16(Unwrap(Unwrap(competitor).score))

\* parse_status
parse_status(s) ==
    CASE s \in {"STATUS_IN_PROGRESS", "STATUS_HALFTIME"} -> "InProgress"
      [] s \in {"STATUS_FINAL", "STATUS_FINAL_OT"} -> "Final"
      [] s \in {"STATUS_POSTPONED", "STATUS_CANCELLED", "STATUS_SUSPENDED"} -> "Postponed"
      [] OTHER -> "Scheduled"

\* Iterator::flat_map of the competitions of an event to their competitors.
RECURSIVE flatten_competitors(_)
flatten_competitors(competitions) ==
    IF competitions = << >> THEN << >>
    ELSE unwrap_or(Head(competitions).competitors, << >>)
         \o flatten_competitors(Tail(competitions))

\* map_event_to_game; status is the Option of [status_type, period,
\* display_clock], status_type that of [name], venue that of [full_name, city,
\* state], date that of [valid, instant], valid telling whether it parses as
\* RFC 3339.
map_event_to_game(event) ==
    LET id == unwrap_or(event.id, "")
        status == IF event.status = None THEN "Scheduled"
                  ELSE IF Unwrap(event.status).status_type = None THEN "Scheduled"
                  ELSE IF Unwrap(Unwrap(event.status).status_type).name = None THEN "Scheduled"
                  ELSE parse_status(Unwrap(Unwrap(Unwrap(event.status).status_type).name))
        period == IF event.status = None THEN None ELSE Unwrap(event.status).period
        clock == IF event.status = None THEN None ELSE Unwrap(event.status).display_clock
        location ==
            IF event.venue = None THEN None
            ELSE LET v == Unwrap(event.venue)
                 IN  IF v.full_name # None THEN v.full_name
                     ELSE IF v.city # None /\ v.state # None
                     THEN Some(<< Unwrap(v.city), Unwrap(v.state) >>)
                     ELSE None
        start_time == IF event.date = None THEN None
                      ELSE IF Unwrap(event.date).valid THEN Some(Unwrap(event.date).instant)
                      ELSE None
        competitors == flatten_competitors(unwrap_or(event.competitions, << >>))
        top == split_competitor_refs(competitors)[1]
        bottom == split_competitor_refs(competitors)[2]
        ts == IF top.team = None THEN None ELSE top.score
        bs == IF bottom.team = None THEN None ELSE bottom.score
        score == IF ts # None /\ bs # None
                 THEN zip(parse_u16(Unwrap(ts)), parse_u16(Unwrap(bs)))
                 ELSE None
        winner_id == IF find_winner(competitors) = 0 THEN None
                     ELSE competitors[find_winner(competitors)].id
    IN  Game(id, status,
             GameRest(map_competitor(top), map_competitor(bottom), score, winner_id,
                      Some(id), period, clock, start_time, location))

\* map_matchup
map_matchup(m) ==
    IF m.event # None THEN map_event_to_game(Unwrap(m.event))
    ELSE LET id == unwrap_or(m.id, "")
             competitors == unwrap_or(m.competitors, << >>)
             score == zip(score_of(top_competitor(competitors)),
                          score_of(bottom_competitor(competitors)))
             winner_id == IF find_winner(competitors) = 0 THEN None
                          ELSE competitors[find_winner(competitors)].id
         IN  Game(id, IF score # None THEN "Final" ELSE "Scheduled",
                  GameRest(split_competitors(competitors)[1], split_competitors(competitors)[2],
                           score, winner_id, Some(id), None, None, None, None))

\* Game::winner
Game_winner(game) ==
    IF game.rest.winner_id = None THEN None
    ELSE IF game.rest.top.team # None
            /\ Unwrap(game.rest.top.team).id = Unwrap(game.rest.winner_id)
    THEN game.rest.top.team
    ELSE game.rest.bottom.team

\* round_number_to_kind
round_number_to_kind(number) ==
    CASE number = 1 -> "FirstFour"
      [] number = 2 -> "First"
      [] number = 3 -> "Second"
      [] number = 4 -> "Sweet16"
      [] number = 5 -> "Elite8"
      [] number = 6 -> "FinalFour"
      [] number = 7 -> "Championship"
      [] OTHER -> "First"

\* char::to_uppercase and to_title_case, on ASCII text
to_uppercase(c) ==
    IF \E k \in 1..26 : LowerCase[k] = c
    THEN UpperCase[CHOOSE k \in 1..26 : LowerCase[k] = c]
    ELSE c
to_title_case(s) ==
    IF s = << >> THEN << >> ELSE << to_uppercase(s[1]) >> \o to_lowercase(Tail(s))

StrEast == << "E", "a", "s", "t" >>
StrWest == << "W", "e", "s", "t" >>
StrSouth == << "S", "o", "u", "t", "h" >>
StrMidwest == << "M", "i", "d", "w", "e", "s", "t" >>
StrNational == << "N", "a", "t", "i", "o", "n", "a", "l" >>
StrRegion == << "R", "e", "g", "i", "o", "n" >>

NATIONAL_SECTION == 6

\* The elements of a sequence that satisfy a test given as the set of their
\* indexes, in order.
RECURSIVE Pick(_, _)
Pick(s, keep) ==
    IF s = << >> THEN << >>
    ELSE Pick(SubSeq(s, 1, Len(s) - 1), keep)
         \o (IF Len(s) \in keep THEN << s[Len(s)] >> ELSE << >>)

\* The kinds of a set sorted by the derived Ord of RoundKind.
RECURSIVE SortKinds(_)
SortKinds(kinds) ==
    IF kinds = { } THEN << >>
    ELSE LET k == CHOOSE k \in kinds : \A j \in kinds : RoundOrd(k) <= RoundOrd(j)
         IN  << k >> \o SortKinds(kinds \ {k})

\* build_rounds: the map from RoundKind to games as Rounds sorted by kind.
build_rounds(rounds_map) ==
    LET kinds == SortKinds(DOMAIN rounds_map)
    IN  [i \in 1..Len(kinds) |-> Round(kinds[i], rounds_map[kinds[i]])]

\* henrygd::HenrygdRegion, and a HenrygdChampionship with its regions
HenrygdRegion(section_id, title) == [section_id |-> section_id, title |-> title]
HenrygdBracket(games, regions) == [games |-> games, regions |-> regions]

\* The map region_names of map_ncaa_championship at a section: of the
\* regions with that section id the last one gives the name.
region_names_get(regions, sid) ==
    IF \A i \in 1..Len(regions) : regions[i].section_id # sid THEN None
    ELSE LET r == regions[CHOOSE i \in 1..Len(regions) :
                             /\ regions[i].section_id = sid
                             /\ \A j \in (i + 1)..Len(regions) : regions[j].section_id # sid]
         IN  Some(IF r.title = << >> THEN StrRegion \o << " " >> \o to_string(sid)
                  ELSE r.title)

\* The map sections of map_ncaa_championship at a section: its games by kind,
\* in the order of the input.
section_rounds(games, sid) ==
    LET kind_of(i) == round_number_to_kind(games[i].bracket_position_id \div 100)
        of_section == { i \in 1..Len(games) : games[i].section_id = sid }
        kinds == { kind_of(i) : i \in of_section }
    IN  [k \in kinds |->
            LET picked == Pick(games, { i \in of_section : kind_of(i) = k })
            IN  [i \in 1..Len(picked) |-> map_ncaa_game(picked[i])]]

\* ordered_ids of map_ncaa_championship: the sections named East, West,
\* South and Midwest in this order if these are all the sections, and else the
\* sections by ascending id.
ordered_ids(section_ids, regions) ==
    LET region_order == << StrEast, StrWest, StrSouth, StrMidwest >>
        found(k) == { i \in 1..Len(section_ids) :
                        region_names_get(regions, section_ids[i]) = Some(region_order[k]) }
        first(k) == CHOOSE i \in found(k) : \A j \in found(k) : i <= j
        matched == Pick(region_order, { k \in 1..4 : found(k) # { } })
        named == [n \in 1..Len(matched) |->
                    section_ids[first(CHOOSE k \in 1..4 : region_order[k] = matched[n])]]
    IN  IF Len(named) = Len(section_ids) THEN named ELSE section_ids

\* map_ncaa_championship
map_ncaa_championship(champ) ==
    LET keys == { champ.games[i].section_id : i \in 1..Len(champ.games) }
        section_ids == sort_unstable(
            Pick([i \in 1..Len(champ.games) |-> champ.games[i].section_id],
                 { i \in 1..Len(champ.games) :
                     /\ champ.games[i].section_id # NATIONAL_SECTION
                     /\ \A j \in 1..(i - 1) :
                           champ.games[j].section_id # champ.games[i].section_id }))
        ids == ordered_ids(section_ids, champ.regions)
        named == [i \in 1..Len(ids) |->
                    Region(unwrap_or(region_names_get(champ.regions, ids[i]),
                                     StrRegion \o << " " >> \o to_string(ids[i])),
                           build_rounds(section_rounds(champ.games, ids[i])))]
    IN  Tournament(named \o
                   (IF NATIONAL_SECTION \in keys
                    THEN << Region(StrNational,
                                   build_rounds(section_rounds(champ.games, NATIONAL_SECTION))) >>
                    ELSE << >>))

\* espn::EspnRound and EspnRound::games_iter
EspnRound(number, matchups, games) == [number |-> number, matchups |-> matchups, games |-> games]
games_iter(espn_round) ==
    unwrap_or(espn_round.matchups, << >>) \o unwrap_or(espn_round.games, << >>)

\* The region name map_tournament gives a matchup of a regular round.
region_name_of(matchup) ==
    IF matchup.note = None THEN StrRegion ELSE to_title_case(Unwrap(matchup.note))

\* The Round an EspnRound adds to the region of a name in the map regions of
\* map_tournament, if any.
round_for_region(espn_round, name) ==
    LET round_kind == round_number_to_kind(unwrap_or(espn_round.number, 2))
        matchups == games_iter(espn_round)
        mine == IF is_final_four(round_kind)
                THEN IF name = StrNational THEN matchups ELSE << >>
                ELSE Pick(matchups, { i \in 1..Len(matchups) :
                                        region_name_of(matchups[i]) = name })
    IN  IF mine = << >> THEN << >>
        ELSE << Round(round_kind, [i \in 1..Len(mine) |-> map_matchup(mine[i])]) >>

\* The map regions of map_tournament after the loop over the rounds, at a
\* name: the Rounds pushed for it, in the order of the rounds.
RECURSIVE region_rounds(_, _)
region_rounds(espn_rounds, name) ==
    IF espn_rounds = << >> THEN << >>
    ELSE region_rounds(SubSeq(espn_rounds, 1, Len(espn_rounds) - 1), name)
         \o round_for_region(espn_rounds[Len(espn_rounds)], name)

\* The keys of that map: the names a Round was pushed for.
region_keys(espn_rounds) ==
    LET names == UNION { { region_name_of(games_iter(espn_rounds[r])[i]) :
                             i \in 1..Len(games_iter(espn_rounds[r])) } :
                         r \in 1..Len(espn_rounds) }
    IN  { name \in names \cup {StrNational} : region_rounds(espn_rounds, name) # << >> }

\* The orders a HashMap may iterate over the keys of a set in.
Orderings(keys) ==
    { order \in [1..Cardinality(keys) -> keys] :
        \A i, j \in 1..Cardinality(keys) : i # j => order[i] # order[j] }

\* map_tournament: the tournaments it may return, one for each order the
\* regions left in the map after the canonical ones are iterated in.
map_tournament(entry, year) ==
    LET espn_rounds == IF entry.bracket = None THEN << >>
                       ELSE unwrap_or(Unwrap(entry.bracket).rounds, << >>)
        keys == region_keys(espn_rounds)
        region_order == << StrEast, StrWest, StrSouth, StrMidwest, StrNational, StrRegion >>
        canonical == Pick(region_order, { k \in 1..6 : region_order[k] \in keys })
        remaining == keys \ { region_order[k] : k \in 1..6 }
    IN  { Tournament([i \in 1..Len(canonical \o rest) |->
                         Region((canonical \o rest)[i],
                                region_rounds(espn_rounds, (canonical \o rest)[i]))]) :
            rest \in Orderings(remaining) }

(***************************************************************************)
(* The normalizers applied to a whole bracket: a wire bracket of either    *)
(* shape goes in, the Tournament comes out.                                *)
(***************************************************************************)
VARIABLES
    champ_in,      \* the HenrygdChampionship given to map_ncaa_championship
    entry_in,      \* the TournamentEntry given to map_tournament
    mapped,        \* the Tournament returned, None before the call
    mapped_by      \* the normalizer that returned it: "none", "ncaa", "espn"

treeVars == << champ_in, entry_in, mapped, mapped_by >>

InitTreeIdle ==
    /\ champ_in = HenrygdBracket(<< >>, << >>)
    /\ entry_in = TournamentEntry(None, None, None)
    /\ mapped = None
    /\ mapped_by = "none"

\* fetch_primary's call of map_ncaa_championship
normalize_championship ==
    /\ mapped_by = "none"
    /\ mapped' = Some(map_ncaa_championship(champ_in))
    /\ mapped_by' = "ncaa"
    /\ UNCHANGED << champ_in, entry_in >>

\* fetch_secondary's call of map_tournament; the order of a HashMap's keys is
\* any.
normalize_entry ==
    /\ mapped_by = "none"
    /\ \E t \in map_tournament(entry_in, FALLBACK_BRACKET_YEAR) : mapped' = Some(t)
    /\ mapped_by' = "espn"
    /\ UNCHANGED << champ_in, entry_in >>

(***************************************************************************)
(* The normalizers applied to one game, and Game::winner on the result.    *)
(***************************************************************************)
VARIABLES
    game_in,       \* the HenrygdGame given to map_ncaa_game
    matchup_in,    \* the EspnMatchup given to map_matchup
    game_out,      \* the Game returned, None before the call
    game_by,       \* the normalizer that returned it: "none", "ncaa", "espn"
    winner_out     \* what Game::winner returned for it, None before the call

gameVars == << game_in, matchup_in, game_out, game_by, winner_out >>

InitGameIdle ==
    /\ game_in = HenrygdGame(0, 0, "", << >>)
    /\ matchup_in = EspnMatchup(None, None, None, None)
    /\ game_out = None
    /\ game_by = "none"
    /\ winner_out = None

normalize_game ==
    /\ game_by = "none"
    /\ game_out' = Some(map_ncaa_game(game_in))
    /\ game_by' = "ncaa"
    /\ UNCHANGED << game_in, matchup_in, winner_out >>

normalize_matchup ==
    /\ game_by = "none"
    /\ game_out' = Some(map_matchup(matchup_in))
    /\ game_by' = "espn"
    /\ UNCHANGED << game_in, matchup_in, winner_out >>

winner ==
    /\ game_out # None
    /\ winner_out = None
    /\ winner_out' = Some(Game_winner(Unwrap(game_out)))
    /\ UNCHANGED << game_in, matchup_in, game_out, game_by >>

normVars == << treeVars, gameVars >>
InitNormIdle == InitTreeIdle /\ InitGameIdle

(***************************************************************************)
(* What each specification leaves alone: its actions constrain the         *)
(* variables of their own component only.                                  *)
(***************************************************************************)
offNav == << netVars, layoutVars, apiVars, normVars >>
offNet == << layoutVars, apiVars, normVars >>
offLayout == << navVars, netVars, apiVars, normVars >>
offFetch == << navVars, netVars, layoutVars, selectVars, yearsVars, normVars >>
offSelect == << navVars, netVars, layoutVars, fetchVars, yearsVars, normVars >>
offYears == << navVars, netVars, layoutVars, fetchVars, selectVars, normVars >>
offTree == << navVars, netVars, layoutVars, apiVars, gameVars >>
offGame == << navVars, netVars, layoutVars, apiVars, treeVars >>

(***************************************************************************)
(* Spec: the navigation controller over input tournaments that vary in     *)
(* shape: every order of up to MaxRegions of the region names, the rounds  *)
(* of a region following from its name.                                    *)
(***************************************************************************)
RegionNames == {"East", "West", "National"}

\* The sequences without repetition of up to n of the names.
Layouts(n) ==
    UNION { { l \in [1..k -> RegionNames] : \A i, j \in 1..k : i # j => l[i] # l[j] } :
            k \in 0..n }

\* n games of one status; the ids tell region r, round k and game g apart.
GamesIn(r, k, n, status) == [g \in 1..n |-> Game(100 * r + 10 * k + g, status, 0)]

\* The rounds of the r-th region of an input tournament: two regional rounds
\* (East), one kind twice (West: map_tournament pushes one Round per wire
\* round, also when two wire rounds map to one kind), the national rounds.
RegionShape(r, name) ==
    CASE name = "East" ->
            << Round("First", GamesIn(r, 1, MaxGames, "Final")),
               Round("Second", GamesIn(r, 2, 1, "InProgress")) >>
      [] name = "West" ->
            << Round("First", GamesIn(r, 1, 1, "Scheduled")),
               Round("First", GamesIn(r, 2, MaxGames, "Scheduled")) >>
      [] name = "National" ->
            << Round("FinalFour", GamesIn(r, 1, MaxGames, "Scheduled")),
               Round("Championship", GamesIn(r, 2, 1, "Scheduled")) >>

NavTournaments ==
    { Tournament([r \in 1..Len(names) |-> Region(names[r], RegionShape(r, names[r]))]) :
        names \in Layouts(MaxRegions) }

\* The scoreboard batches of Spec: at most one update, of the first game of
\* the first or second region or of no game of the tree.
NavBatches ==
    { << >> } \cup { << Game(id, "InProgress", 1) >> : id \in {111, 211, 999} }

Init == InitNav /\ InitNet /\ InitLayoutIdle /\ InitApiIdle /\ InitNormIdle

Next ==
    \/ (\E t \in NavTournaments : load(t)) /\ UNCHANGED offNav
    \/ (\E games \in NavBatches : merge_updates(games)) /\ UNCHANGED offNav
    \/ navigate_round_next /\ UNCHANGED offNav
    \/ navigate_round_prev /\ UNCHANGED offNav
    \/ navigate_game_down /\ UNCHANGED offNav
    \/ navigate_game_up /\ UNCHANGED offNav
    \/ cycle_region /\ UNCHANGED offNav
    \/ on_error("network error") /\ UNCHANGED offNav
    \/ start_pick_wizard /\ UNCHANGED offNav
    \/ load_compare_sources /\ UNCHANGED offNav

vars == << navVars, netVars, layoutVars, apiVars, normVars >>

Spec == Init /\ [][Next]_vars

(***************************************************************************)
(* Claims about the navigation controller, checked under Spec.             *)
(***************************************************************************)
\* The cursor before the last operation, by field.
PreViewRound == pre[1]
PreSelectedRegion == pre[2]
PreSelectedGame == pre[3]
PreScrollOffset == pre[4]

\* The game lists the cursor may stand on, stated from the data model: the
\* games of the first Round of kind view_round of the first region named
\* National (FinalFour and Championship) or of the region at index
\* selected_region (the earlier rounds). Empty when any link is absent.
CurrentGameLists ==
    IF tournament = None THEN {}
    ELSE LET regions == Unwrap(tournament).regions
             national == view_round = "FinalFour" \/ view_round = "Championship"
             firstNational(i) == /\ regions[i].name = "National"
                                 /\ \A j \in 1..(i - 1) : regions[j].name # "National"
             firstOfKind(i, k) == /\ regions[i].rounds[k].kind = view_round
                                  /\ \A l \in 1..(k - 1) :
                                        regions[i].rounds[l].kind # view_round
         IN  UNION { { regions[i].rounds[k].games :
                          k \in { l \in 1..Len(regions[i].rounds) : firstOfKind(i, l) } } :
                     i \in { j \in 1..Len(regions) :
                               IF national THEN firstNational(j)
                                           ELSE j = selected_region + 1 } }

\* C4: selected_game is never negative and never exceeds the last index of
\* the game list of the current (region, view round); it is 0 whenever that
\* list is empty or absent.
C4_SelectedGameInBounds ==
    /\ selected_game >= 0
    /\ \A games \in CurrentGameLists :
          IF games = << >> THEN selected_game = 0 ELSE selected_game <= Len(games) - 1
    /\ CurrentGameLists = {} => selected_game = 0

\* C4 witness: game down has moved the cursor to the last index of a list of
\* more than one game, and another game down has left it there.
C4_Witness ==
    /\ op = "navigate_game_down"
    /\ PreSelectedGame = selected_game
    /\ selected_game > 0
    /\ \E games \in CurrentGameLists : selected_game = Len(games) - 1

\* C5: navigate_round_next at Championship and navigate_round_prev at
\* FirstFour leave the whole cursor unchanged; at every other round they move
\* view_round exactly one step along the order of the round kinds, set
\* selected_game and scroll_offset to 0 and leave selected_region unchanged.
C5_RoundNavigation ==
    /\ op = "navigate_round_next" =>
          IF PreViewRound = "Championship" THEN cursor = pre
          ELSE /\ RoundOrd(view_round) = RoundOrd(PreViewRound) + 1
               /\ selected_game = 0
               /\ scroll_offset = 0
               /\ selected_region = PreSelectedRegion
    /\ op = "navigate_round_prev" =>
          IF PreViewRound = "FirstFour" THEN cursor = pre
          ELSE /\ RoundOrd(view_round) = RoundOrd(PreViewRound) - 1
               /\ selected_game = 0
               /\ scroll_offset = 0
               /\ selected_region = PreSelectedRegion

\* C5 witness: a round advance from a lower game of the Final Four has reached
\* the Championship, where selected_region is kept and the game reset.
C5_Witness ==
    /\ op = "navigate_round_next"
    /\ PreViewRound = "FinalFour"
    /\ PreSelectedGame > 0
    /\ PreSelectedRegion > 0
    /\ view_round = "Championship"

\* The number of regions of the tournament that are not named National.
NonNationalCount(t) ==
    Cardinality({ i \in 1..Len(t.regions) : t.regions[i].name # "National" })

\* C6, as claimed: cycle_region before FinalFour sets selected_region to
\* (selected_region + 1) modulo the number of non-National regions of the
\* loaded tournament; at FinalFour or Championship it changes no part of the
\* cursor.
C6_CycleRegionAsClaimed ==
    (op = "cycle_region" /\ tournament # None) =>
        IF is_final_four(PreViewRound) THEN cursor = pre
        ELSE NonNationalCount(Unwrap(tournament)) > 0 =>
                selected_region =
                    (PreSelectedRegion + 1) % NonNationalCount(Unwrap(tournament))

\* C7: selected_game_id is the id of the game at index selected_game in the
\* Round of kind view_round of the National region (FinalFour, Championship)
\* or of the selected region (earlier rounds); it is none when no tournament
\* is loaded, the region is absent, the region has no Round of that kind, or
\* the index is beyond the round's game list.
C7_SelectedGameId ==
    /\ \A games \in CurrentGameLists :
          selected_game_id = IF selected_game < Len(games)
                             THEN Some(games[selected_game + 1].id)
                             ELSE None
    /\ CurrentGameLists = {} => selected_game_id = None

\* C7 witness: at the Final Four, with a selected region that is not the
\* National one, a game of the National region is resolved.
C7_Witness ==
    /\ view_round = "FinalFour"
    /\ tournament # None
    /\ selected_region < Len(Unwrap(tournament).regions)
    /\ Unwrap(tournament).regions[selected_region + 1].name # "National"
    /\ selected_game > 0
    /\ selected_game_id # None

\* C10: handling an error changes neither the stored tournament nor the
\* cursor (only last_error is set), and game navigation still moves within
\* the retained tree afterwards.
C10_ErrorKeepsTree ==
    [][ /\ op' = "on_error" =>
            /\ tournament' = tournament
            /\ current_round' = current_round
            /\ cursor' = cursor
            /\ last_error' # None
        /\ (/\ op' = "navigate_game_down"
            /\ last_error # None
            /\ \E games \in CurrentGameLists : selected_game + 1 < Len(games)) =>
                selected_game' = selected_game + 1 ]_vars

\* C10 witness: an error arrived while a lower game of a loaded tree was
\* selected, and game navigation has moved the cursor since.
C10_Witness ==
    /\ last_error # None
    /\ tournament # None
    /\ op = "navigate_game_down"
    /\ selected_game = PreSelectedGame + 1

(***************************************************************************)
(* SpecLoad: the operations of BracketState in any order, a load at any    *)
(* time and from any cursor (main.rs itself sends LoadBracket only at      *)
(* AppStarted), of tournaments that vary in the round and the status of    *)
(* each game; score batches and navigation come between the loads.         *)
(***************************************************************************)
LoadStatuses == {"Scheduled", "InProgress", "Final"}

\* The rounds the games of these tournaments are in: one before the default
\* round of the detection, one after it, and the two national rounds.
LoadKinds == {"FirstFour", "Second", "FinalFour", "Championship"}

\* The rounds and statuses of the games of an input tournament, earlier
\* rounds first.
GameSpecs(n) ==
    UNION { { gs \in [1..k -> [kind : LoadKinds, status : LoadStatuses]] :
                \A i \in 1..(k - 1) : RoundOrd(gs[i].kind) <= RoundOrd(gs[i + 1].kind) } :
            k \in 0..n }

\* One Round per kind, the games in their order (build_rounds).
RECURSIVE GroupRounds(_)
GroupRounds(seq) ==
    IF seq = << >> THEN << >>
    ELSE LET k == seq[1].kind
             same == SelectSeq(seq, LAMBDA x : x.kind = k)
             rest == SelectSeq(seq, LAMBDA x : x.kind # k)
         IN  << Round(k, [i \in 1..Len(same) |-> same[i].game]) >> \o GroupRounds(rest)

\* The region West of every input tournament: two scheduled games of the
\* first round.
RegionWest ==
    Region("West", << Round("First", << Game(8, "Scheduled", 0),
                                        Game(9, "Scheduled", 0) >>) >>)

\* The tournament of the games gs: game i has id i; the rounds before the
\* Final Four are in region East, the others in region National; East and
\* National are absent when they have no game, and West is between them.
TreeOf(gs) ==
    LET tagged == [i \in 1..Len(gs) |->
                      [kind |-> gs[i].kind, game |-> Game(i, gs[i].status, 0)]]
        east == SelectSeq(tagged, LAMBDA x : ~is_final_four(x.kind))
        national == SelectSeq(tagged, LAMBDA x : is_final_four(x.kind))
    IN  Tournament(
            (IF east = << >> THEN << >> ELSE << Region("East", GroupRounds(east)) >>)
            \o << RegionWest >>
            \o (IF national = << >> THEN << >>
                ELSE << Region("National", GroupRounds(national)) >>))

LoadTournaments == { TreeOf(gs) : gs \in GameSpecs(MaxLoadGames) }

\* The score batches of SpecLoad: at most one update, of one game.
LoadBatches ==
    { << >> } \cup { << Game(id, status, 1) >> :
                        id \in 1..MaxLoadGames, status \in {"InProgress", "Final"} }

\* The scroll offsets a BracketState starts SpecLoad with: load is claimed
\* for any prior cursor state, and of the operations of BracketState none
\* makes the offset other than 0.
ScrollOffsets == {0, 3}

InitLoad ==
    /\ tournament = None
    /\ current_round = "FirstFour"
    /\ view_round = "FirstFour"
    /\ selected_region = 0
    /\ selected_game = 0
    /\ scroll_offset \in ScrollOffsets
    /\ last_error = None
    /\ op = "init"
    /\ arg = None
    /\ pre = cursor
    /\ InitNet
    /\ InitLayoutIdle
    /\ InitApiIdle
    /\ InitNormIdle

\* A bracket is loaded at any time, over the tree and the cursor of before.
NextLoad ==
    \/ (\E t \in LoadTournaments : load(t)) /\ UNCHANGED offNav
    \/ (\E games \in LoadBatches : merge_updates(games)) /\ UNCHANGED offNav
    \/ navigate_round_next /\ UNCHANGED offNav
    \/ navigate_round_prev /\ UNCHANGED offNav
    \/ navigate_game_down /\ UNCHANGED offNav
    \/ navigate_game_up /\ UNCHANGED offNav
    \/ cycle_region /\ UNCHANGED offNav

SpecLoad == InitLoad /\ [][NextLoad]_vars

(***************************************************************************)
(* Claims about loading and score updates, checked under SpecLoad.         *)
(***************************************************************************)
\* The round kinds that have a game of the status anywhere in the tree.
KindsWith(t, status) ==
    { k \in RoundKind :
        \E i \in 1..Len(t.regions) : \E j \in 1..Len(t.regions[i].rounds) :
            /\ t.regions[i].rounds[j].kind = k
            /\ \E g \in 1..Len(t.regions[i].rounds[j].games) :
                  t.regions[i].rounds[j].games[g].status = status }

\* The active round as the rule states it: the earliest round with an
\* in-progress game, else the latest round with a final game, else First.
ActiveRoundRule(t) ==
    LET live == KindsWith(t, "InProgress")
        final == KindsWith(t, "Final")
    IN  IF live # {} THEN CHOOSE k \in live : \A l \in live : RoundOrd(k) <= RoundOrd(l)
        ELSE IF final # {}
             THEN CHOOSE k \in final : \A l \in final : RoundOrd(l) <= RoundOrd(k)
             ELSE "First"

\* C2: a score batch leaves view_round, selected_region, selected_game and
\* scroll_offset unchanged, and current_round is afterwards the active round
\* detected over the patched tree (with no tree loaded nothing changes).
C2_MergeKeepsCursor ==
    [][ op' = "merge_updates" =>
            /\ cursor' = cursor
            /\ IF tournament' # None
               THEN current_round' = ActiveRoundRule(Unwrap(tournament'))
               ELSE current_round' = current_round ]_vars

\* C2 witness: a batch has put a game of a later round in progress while the
\* user stays at an earlier round, which has a final game.
C2_Witness ==
    /\ op = "merge_updates"
    /\ tournament # None
    /\ arg # Some(<< >>)
    /\ RoundOrd(view_round) < RoundOrd(current_round)
    /\ "InProgress" \in { Unwrap(arg)[i].status : i \in 1..Len(Unwrap(arg)) }
    /\ KindsWith(Unwrap(tournament), "InProgress") = {current_round}
    /\ KindsWith(Unwrap(tournament), "Final") # {}

\* C3: after load(t), from any cursor, the stored tournament is t,
\* selected_region, selected_game and scroll_offset are 0, and view_round and
\* current_round both equal the earliest round with an in-progress game, else
\* the latest round with a final game, else First.
C3_LoadResetsCursor ==
    op = "load" =>
        /\ tournament = arg
        /\ tournament # None
        /\ selected_region = 0
        /\ selected_game = 0
        /\ scroll_offset = 0
        /\ view_round = ActiveRoundRule(Unwrap(tournament))
        /\ current_round = view_round

\* C3 witness: a load over a loaded tree, from a cursor at the second game
\* of the second region in the first round, of a tree with a final game in a
\* round later than its in-progress round; the in-progress round is shown.
C3_Witness ==
    /\ op = "load"
    /\ PreSelectedRegion > 0
    /\ PreSelectedGame > 0
    /\ PreViewRound = "First"
    /\ view_round # PreViewRound
    /\ \E k \in KindsWith(Unwrap(tournament), "Final") :
          RoundOrd(k) > RoundOrd(view_round)
    /\ view_round \in KindsWith(Unwrap(tournament), "InProgress")

\* A load from a scroll offset other than 0.
LoadFromScrolled ==
    /\ op = "load"
    /\ PreScrollOffset > 0

(***************************************************************************)
(* SpecMerge: Tournament::merge_updates applied to trees of three games    *)
(* and to batches of up to MaxBatch updates. The ids of a tree are any     *)
(* three of 1..MaxId: all different, or some of them equal, as the         *)
(* normalizers copy the ids of the wire data and map_matchup gives every   *)
(* matchup without an id the empty one. A batch may carry an id twice.     *)
(***************************************************************************)
\* The games of a merge tree, by id; all scheduled, other fields 0.
MergeGame(id) == Game(id, "Scheduled", 0)

\* Two regional games and a national one, the regional games in one round
\* (split FALSE) or in two.
MergeTree(ids, split) ==
    Tournament(<< Region("East",
                     IF split
                     THEN << Round("First", << MergeGame(ids[1]) >>),
                             Round("Second", << MergeGame(ids[2]) >>) >>
                     ELSE << Round("First", << MergeGame(ids[1]), MergeGame(ids[2]) >>) >>),
                  Region("National", << Round("FinalFour", << MergeGame(ids[3]) >>) >>) >>)

\* Every choice of the three ids.
MergeTournaments ==
    { MergeTree(ids, split) : ids \in [1..3 -> 1..MaxId], split \in BOOLEAN }

\* The updates of a scoreboard batch: a game in progress or final, other
\* fields 1.
UpdateGames == { Game(id, status, 1) : id \in 1..MaxId, status \in {"InProgress", "Final"} }

MergeBatches == UNION { [1..k -> UpdateGames] : k \in 0..MaxBatch }

\* One load, then one batch merged into the loaded tree.
NextMerge ==
    \/ /\ tournament = None
       /\ \E t \in MergeTournaments : load(t)
       /\ UNCHANGED offNav
    \/ /\ op = "load"
       /\ \E games \in MergeBatches : merge_updates(games)
       /\ UNCHANGED offNav

SpecMerge == Init /\ [][NextMerge]_vars

(***************************************************************************)
(* Claims about Tournament::merge_updates, checked under SpecMerge.        *)
(***************************************************************************)
\* The two trees have the same regions, rounds and numbers of games.
SameShape(a, b) ==
    /\ Len(a.regions) = Len(b.regions)
    /\ \A i \in 1..Len(a.regions) :
          /\ a.regions[i].name = b.regions[i].name
          /\ Len(a.regions[i].rounds) = Len(b.regions[i].rounds)
          /\ \A j \in 1..Len(a.regions[i].rounds) :
                /\ a.regions[i].rounds[j].kind = b.regions[i].rounds[j].kind
                /\ Len(a.regions[i].rounds[j].games) = Len(b.regions[i].rounds[j].games)

\* The indices of the updates of the batch that carry the id.
UpdatesOf(batch, id) == { i \in 1..Len(batch) : batch[i].id = id }

\* No two games of the tree have the same id (the data model: the id of a
\* game is unique within its Tournament).
UniqueIds(t) ==
    \A p, q \in Positions(t) : GameAt(t, p).id = GameAt(t, q).id => p = q

\* The tree t2 is the tree t with the batch merged as C1 says: the shape is
\* kept, every game whose id is not in the batch is as it was, and every game
\* whose id is in the batch equals an update of the batch carrying that id.
MergedAsClaimed(t, t2, batch) ==
    /\ SameShape(t, t2)
    /\ \A p \in Positions(t) :
          IF UpdatesOf(batch, GameAt(t, p).id) = {}
          THEN GameAt(t2, p) = GameAt(t, p)
          ELSE \E i \in UpdatesOf(batch, GameAt(t, p).id) : GameAt(t2, p) = batch[i]

\* C1: merge_updates keeps the shape of the tree, leaves every game whose id
\* is not in the batch as it was, and leaves every game whose id is in the
\* batch equal to an update of the batch carrying that id.
C1_MergeAsClaimed ==
    [][ (op' = "merge_updates" /\ tournament # None) =>
            MergedAsClaimed(Unwrap(tournament), Unwrap(tournament'), Unwrap(arg')) ]_vars

\* Where the ids of the tree are unique merge_updates does what C1 says,
\* whether or not the batch carries an id twice.
MergeOfUniqueIds ==
    [][ (op' = "merge_updates" /\ tournament # None /\ UniqueIds(Unwrap(tournament))) =>
            MergedAsClaimed(Unwrap(tournament), Unwrap(tournament'), Unwrap(arg')) ]_vars

\* A batch has been merged into a tree of unique ids, one of which it
\* carries twice: the game with that id equals the second update.
MergeOfUniqueIdsReached ==
    /\ op = "merge_updates"
    /\ tournament # None
    /\ UniqueIds(Unwrap(tournament))
    /\ Len(Unwrap(arg)) = 2
    /\ Unwrap(arg)[1].id = Unwrap(arg)[2].id
    /\ Unwrap(arg)[1] # Unwrap(arg)[2]
    /\ \E p \in Positions(Unwrap(tournament)) :
          GameAt(Unwrap(tournament), p) = Unwrap(arg)[2]

(***************************************************************************)
(* SpecNet: the UI loop, the network worker, its spinner tasks and the     *)
(* periodic refresher running together.                                    *)
(***************************************************************************)
NextNet ==
    \/ UiAppStarted /\ UNCHANGED offNet
    \/ UiKeyDown /\ UNCHANGED offNet
    \/ UiKeyUp /\ UNCHANGED offNet
    \/ UiSendRequest /\ UNCHANGED offNet
    \/ UiLoadingStateChanged /\ UNCHANGED offNet
    \/ UiBracketLoaded /\ UNCHANGED offNet
    \/ UiBracketUpdated /\ UNCHANGED offNet
    \/ UiGameDetailLoaded /\ UNCHANGED offNet
    \/ UiError /\ UNCHANGED offNet
    \/ WorkerRecv /\ UNCHANGED offNet
    \/ WorkerStartSend /\ UNCHANGED offNet
    \/ WorkerHandle /\ UNCHANGED offNet
    \/ WorkerStopSend /\ UNCHANGED offNet
    \/ WorkerResultSend /\ UNCHANGED offNet
    \/ SpinnerTick /\ UNCHANGED offNet
    \/ SpinnerSend /\ UNCHANGED offNet
    \/ RefresherSend /\ UNCHANGED offNet

SpecNet == Init /\ [][NextNet]_vars

(***************************************************************************)
(* Claims about the tasks and their channels, checked under SpecNet.       *)
(***************************************************************************)
\* The UI loop is in network_requests.send().await and the channel is full.
UiBlockedSending == ui_pc = "send" /\ ~HasRoom(requests)

\* The worker is in responses.send().await and the channel is full.
WorkerBlockedSending ==
    /\ worker_pc \in {"start_send", "stop_send", "result_send"}
    /\ ~HasRoom(responses)

\* C8, as claimed: in no reachable state is the UI loop blocked sending a
\* NetworkRequest while the network worker is blocked sending a
\* NetworkResponse (from such a state the UI loop never receives again: only
\* the worker takes requests, only the UI loop takes responses).
C8_NoMutualBlock == ~(UiBlockedSending /\ WorkerBlockedSending)

\* The updates of the batches, in their order.
RECURSIVE Flatten(_)
Flatten(batches) ==
    IF batches = << >> THEN << >> ELSE Head(batches) \o Flatten(Tail(batches))

IsPrefix(a, b) == Len(a) <= Len(b) /\ \A i \in 1..Len(a) : a[i] = b[i]

\* Every game of the tree equals the most recently arrived update that
\* carries its id.
LastArrivedWins ==
    tournament # None =>
        LET t == Unwrap(tournament)
            updates == Flatten(arrived)
        IN  \A p \in Positions(t) :
               LET hits == UpdatesOf(updates, GameAt(t, p).id)
               IN  hits # {} =>
                      GameAt(t, p) = updates[CHOOSE i \in hits : \A j \in hits : j <= i]

\* C9: the batches handled by the UI loop are the batches the worker sent,
\* in their order and without a gap, and every game of the tree equals the
\* most recently arrived update that carries its id.
C9_LastArrivedAsClaimed ==
    /\ IsPrefix(arrived, sent)
    /\ LastArrivedWins

\* The order of arrival is the order of sending, without a gap; and where
\* the ids of the loaded tree are unique every game equals the most recently
\* arrived update that carries its id.
ArrivalOrderOfUniqueIds ==
    /\ IsPrefix(arrived, sent)
    /\ (loaded # None /\ UniqueIds(Unwrap(loaded))) => LastArrivedWins

\* Two different updates of one id have arrived one after the other at a
\* tree of unique ids: the game with the id equals the second of them.
ArrivalOrderOfUniqueIdsReached ==
    /\ Len(arrived) = 2
    /\ arrived[1] # arrived[2]
    /\ arrived[1][1].id = arrived[2][1].id
    /\ tournament # None
    /\ UniqueIds(Unwrap(tournament))
    /\ \E p \in Positions(Unwrap(tournament)) :
          GameAt(Unwrap(tournament), p) = arrived[2][1]

(***************************************************************************)
(* SpecLayout: the four constructors of BracketGrid applied, in any order, *)
(* to one terminal width drawn from 0..MaxWidth and the largest u16.       *)
(***************************************************************************)
Widths == 0..MaxWidth \cup {U16Range - 1}

InitLayout ==
    /\ InitNav
    /\ InitNet
    /\ InitApiIdle
    /\ InitNormIdle
    /\ terminal_width \in Widths
    /\ grids = [v \in Variants |-> None]

NextLayout ==
    \/ compute /\ UNCHANGED offLayout
    \/ compute_mirrored /\ UNCHANGED offLayout
    \/ compute_flipped /\ UNCHANGED offLayout
    \/ compute_flipped_mirrored /\ UNCHANGED offLayout

SpecLayout == InitLayout /\ [][NextLayout]_vars

(***************************************************************************)
(* Claims about the layout engine, checked under SpecLayout.               *)
(***************************************************************************)
\* The grids computed so far.
Computed == { v \in Variants : grids[v] # None }
GridOf(v) == Unwrap(grids[v])
AllComputed == Computed = Variants

\* The cell of game i (from 0) at depth d, in depth-major order.
CellOf(grid, d, i) == grid.cells[(16 - 2 ^ (4 - d)) + i + 1]

\* C11: in every variant and for every width, the parent cell at depth d+1,
\* index j has center_row exactly (center_row of child 2j + center_row of
\* child 2j+1) / 2 at depth d.
C11_ParentIsMidpoint ==
    \A v \in Computed : \A d \in 0..2 :
        LET children == cells_for_depth(GridOf(v), d)
            parents == cells_for_depth(GridOf(v), d + 1)
        IN  /\ Len(children) = 2 * Len(parents)
            /\ Len(parents) > 0
            /\ \A j \in 0..(Len(parents) - 1) :
                  LET sum == children[2 * j + 1].center_row
                             + children[2 * j + 2].center_row
                  IN  /\ parents[j + 1].center_row = sum \div 2
                      /\ sum % 2 = 0

\* C11 witness: the four variants are computed for the widest terminal; the
\* flipped ones have their first-round cells below their parents' siblings.
C11_Witness ==
    /\ AllComputed
    /\ terminal_width = U16Range - 1
    /\ cells_for_depth(GridOf("compute_flipped"), 1)[1].center_row = 27
    /\ cells_for_depth(GridOf("compute"), 1)[1].center_row = 3

\* C12: for every width (0 and the largest u16 included) and every variant
\* the grid has exactly 15 cells, 8 First, 4 Second, 2 Sweet16 and 1 Elite8,
\* all of one cell_width, which is at least 1 and at most 22.
C12_FifteenCells ==
    \A v \in Computed :
        LET cells == GridOf(v).cells
            of(kind) == Cardinality({ k \in 1..Len(cells) : cells[k].round = kind })
        IN  /\ Len(cells) = 15
            /\ of("First") = 8
            /\ of("Second") = 4
            /\ of("Sweet16") = 2
            /\ of("Elite8") = 1
            /\ \A k, l \in 1..Len(cells) : cells[k].cell_width = cells[l].cell_width
            /\ \A k \in 1..Len(cells) :
                  cells[k].cell_width >= 1 /\ cells[k].cell_width <= 22

\* C12 witness: the four grids of width 0, whose cells are one column wide.
C12_Witness ==
    /\ AllComputed
    /\ terminal_width = 0
    /\ \A v \in Variants : GridOf(v).cells[15].cell_width = 1

\* The center rows of the unflipped variants, by depth.
CenterTable ==
    << << 1, 5, 9, 13, 17, 21, 25, 29 >>, << 3, 11, 19, 27 >>, << 7, 23 >>, << 15 >> >>

FlippedVariants == {"compute_flipped", "compute_flipped_mirrored"}
MirroredVariants == {"compute_mirrored", "compute_flipped_mirrored"}

\* C13: the cell of game i at depth d has center_row
\* SH(d)/2 + i*(SH(d+1)-SH(d)) in the unflipped variants (the rows of
\* CenterTable) and 30 minus that in the flipped ones; its column is
\* d*(cell_width+3) unmirrored and (3-d)*(cell_width+3) mirrored; cell_width
\* and the total height of 31 are the same in the four variants.
C13_CellPositions ==
    /\ \A v \in Computed : \A d \in 0..3 : \A i \in 0..(Len(CenterTable[d + 1]) - 1) :
          LET cell == CellOf(GridOf(v), d, i)
              normal == SH(d) \div 2 + i * (IF d < 3 THEN SH(d + 1) - SH(d) ELSE 0)
          IN  /\ normal = CenterTable[d + 1][i + 1]
              /\ cell.round = round_kinds[d + 1]
              /\ cell.game_idx = i
              /\ cell.center_row = IF v \in FlippedVariants THEN 30 - normal ELSE normal
              /\ cell.col = IF v \in MirroredVariants
                            THEN (3 - d) * (cell.cell_width + 3)
                            ELSE d * (cell.cell_width + 3)
    /\ \A v, w \in Computed :
          /\ GridOf(v).cell_width = GridOf(w).cell_width
          /\ GridOf(v).total_height = 31
          /\ GridOf(v).cells[1].cell_width = GridOf(w).cell_width

\* C13 witness: the four grids of an 80-column terminal: the first round is
\* rightmost in the mirrored grids and lowest in the flipped ones.
C13_Witness ==
    /\ AllComputed
    /\ terminal_width = 80
    /\ CellOf(GridOf("compute_flipped_mirrored"), 0, 0).col = 3 * (17 + 3)
    /\ CellOf(GridOf("compute_flipped_mirrored"), 0, 0).center_row = 29
    /\ CellOf(GridOf("compute"), 0, 0).col = 0

\* C14, as claimed: for every width the grid fits the width it was computed
\* for: 4*cell_width + 3*CONNECTOR_WIDTH <= terminal_width, and total_width
\* does not exceed terminal_width.
C14_GridFitsWidth ==
    \A v \in Computed :
        /\ 4 * GridOf(v).cell_width + 3 * CONNECTOR_WIDTH <= terminal_width
        /\ GridOf(v).total_width <= terminal_width

(***************************************************************************)
(* SpecFetch: one call of NcaaApi::fetch_tournament, for two readings of   *)
(* the clock and a setting of MMTUI_BRACKET_JSON with the file it names,   *)
(* the network answering each request in any of the ways of Answers.       *)
(***************************************************************************)
NameNcaa == << "N", "C", "A", "A" >>
NameNit == << "N", "I", "T" >>

\* A bracket with one round, and an entry with it or without.
SomeBracket == Some(Bracket(Some(<< 1 >>)))
EntryNit(bracket) == TournamentEntry(1, Some(NameNit), bracket)
EntryNcaa(bracket) == TournamentEntry(2, Some(NameNcaa), bracket)

\* Documents of the secondary shape: no tournaments, no entry with a bracket,
\* an entry to select after one that is not preferred.
Documents ==
    { TournamentsResponse(None),
      TournamentsResponse(Some(<< EntryNit(None), EntryNcaa(Some(Bracket(None))) >>)),
      TournamentsResponse(Some(<< EntryNit(SomeBracket), EntryNcaa(SomeBracket) >>)) }

Selectable == TournamentsResponse(Some(<< EntryNit(SomeBracket), EntryNcaa(SomeBracket) >>))
Unselectable == TournamentsResponse(Some(<< EntryNit(None), EntryNcaa(Some(Bracket(None))) >>))

\* Responses of the primary shape: championships with and without games.
Championships ==
    LET empty == HenrygdChampionship("empty", << >>)
        full == HenrygdChampionship("full", << 1 >>)
    IN  { << >>, << empty >>, << full >>, << empty, full >>, << full, empty >> }

\* The answers to a request whose body would decode as one of bodies.
Answers(bodies) ==
    { NoAnswer, Answer(200, None), Answer(304, None), Answer(500, None) }
    \cup { Answer(200, Some(b)) : b \in bodies }
    \cup { Answer(304, Some(b)) : b \in bodies }
    \cup { Answer(404, Some(b)) : b \in bodies }

PrimaryAnswers == Answers({ HenrygdResponse(c) : c \in Championships })
SecondaryAnswers ==
    { NoAnswer, Answer(200, None), Answer(304, None), Answer(500, None),
      Answer(200, Some(Unselectable)), Answer(200, Some(Selectable)),
      Answer(404, Some(Selectable)) }

Dates == { [year |-> 2025, month |-> 3], [year |-> 2025, month |-> 10],
           [year |-> 2025, month |-> 11], [year |-> 2027, month |-> 3] }

\* The month after the date.
NextMonth(date) ==
    IF date.month = 12 THEN [year |-> date.year + 1, month |-> 1]
    ELSE [year |-> date.year, month |-> date.month + 1]

\* The readings of the clock: the second one of the month of the first or, the
\* request to the primary source lying between them, of the month after it.
Clocks == { << d, d >> : d \in Dates } \cup { << d, NextMonth(d) >> : d \in Dates }

\* Values of MMTUI_BRACKET_JSON: unset, blank, a path without a year, with a
\* year, with a first four-digit token that is no year, and a path of one
\* character that is not white space, U+200B.
Paths ==
    { << "b" >>, << "2", "0", "2", "4" >>,
      << "1", "9", "9", "9", "_", "2", "0", "2", "5" >>, << "U+200B" >> }
EnvValues == { None, Some(<< " ", "\t", "", "U+2003" >>) } \cup { Some(p) : p \in Paths }

Files ==
    { [readable |-> FALSE, document |-> None], [readable |-> TRUE, document |-> None] }
    \cup { [readable |-> TRUE, document |-> Some(d)] : d \in Documents }

InitFetch ==
    /\ InitNav
    /\ InitNet
    /\ InitLayoutIdle
    /\ InitNormIdle
    /\ InitSelectIdle
    /\ InitYearsIdle
    /\ now \in Clocks
    /\ env_path \in EnvValues
    /\ file \in Files
    /\ override_configured \/ file = [readable |-> FALSE, document |-> None]
    /\ fetch_pc = "start"
    /\ years_left = << >>
    /\ chain_last_error = None
    /\ fetch_result = None
    /\ queried = << >>
    /\ encountered = << >>

NextFetch ==
    \/ fetch_override /\ UNCHANGED offFetch
    \/ (\E response \in PrimaryAnswers : fetch_primary(response)) /\ UNCHANGED offFetch
    \/ (\E response \in SecondaryAnswers : fetch_secondary(response)) /\ UNCHANGED offFetch
    \/ fetch_embedded /\ UNCHANGED offFetch

SpecFetch == InitFetch /\ [][NextFetch]_vars

(***************************************************************************)
(* Claims about the provider chain, checked under SpecFetch.               *)
(***************************************************************************)
\* The season year of the clock when fetch_tournament is called, and the
\* candidate years of the clock when the request to the primary source has
\* been answered.
SeasonYear == season_tournament_year(now[1])
CandidateYears == candidate_tournament_years(now[2])

\* The request of index i gave an entry to select.
YieldsEntry(i) ==
    /\ queried[i].result.ok
    /\ \E k \in 1..Len(unwrap_or_default(queried[i].result.value.tournaments)) :
          has_bracket(unwrap_or_default(queried[i].result.value.tournaments)[k])

\* The primary source was asked and its first championship has games.
FirstChampionshipHasGames ==
    /\ queried # << >>
    /\ queried[1].source = "primary"
    /\ queried[1].result.ok
    /\ queried[1].result.value.championships # << >>
    /\ queried[1].result.value.championships[1].games # << >>

\* The primary source was asked and one of its championships has games.
SomeChampionshipHasGames ==
    /\ queried # << >>
    /\ queried[1].source = "primary"
    /\ queried[1].result.ok
    /\ \E k \in 1..Len(queried[1].result.value.championships) :
          queried[1].result.value.championships[k].games # << >>

\* The order of the sources, the primary source counting as usable when
\* usable holds.
SourceOrder(usable) ==
    /\ override_configured =>
          \A i \in 1..Len(queried) : queried[i].source = "override"
    /\ ~ override_configured /\ queried # << >> =>
          /\ queried[1].source = "primary"
          /\ queried[1].year = SeasonYear
          /\ usable =>
                /\ Len(queried) = 1
                /\ fetch_pc = "done"
                /\ fetch_result # None
                /\ Unwrap(fetch_result).ok
                /\ Unwrap(fetch_result).value.by = "map_ncaa_championship"
          /\ ~ usable =>
                /\ Len(queried) <= Len(CandidateYears) + 2
                /\ fetch_pc = "done" =>
                      /\ Len(queried) >= 2
                      /\ \/ queried[Len(queried)].source = "embedded"
                         \/ YieldsEntry(Len(queried))
                /\ \A i \in 2..Len(queried) :
                      /\ i <= Len(CandidateYears) + 1 =>
                            /\ queried[i].source = "secondary"
                            /\ queried[i].year = CandidateYears[i - 1]
                            /\ YieldsEntry(i) =>
                                  /\ i = Len(queried)
                                  /\ fetch_pc = "done"
                                  /\ Unwrap(fetch_result).ok
                                  /\ Unwrap(fetch_result).value.by = "map_tournament"
                                  /\ Unwrap(fetch_result).value.args[2] = queried[i].year
                            /\ i < Len(queried) => ~ YieldsEntry(i)
                      /\ i = Len(CandidateYears) + 2 =>
                            /\ queried[i].source = "embedded"
                            /\ \A j \in 2..(i - 1) : ~ YieldsEntry(j)

\* C15 as stated: fetch_tournament asks its sources in a fixed order and stops
\* at the first usable bracket: the local override instead of every network
\* source; else the primary source for the season year, whose bracket is
\* returned without asking the secondary source if it returns at least one
\* non-empty game list; else the secondary source once per candidate year in
\* the order of the list, stopping at the first year that yields an entry; the
\* embedded snapshot only after every candidate year has failed.
C15_SourceOrderAsClaimed == SourceOrder(SomeChampionshipHasGames)

\* C15, amended: the same order, the bracket of the primary source being
\* returned exactly if the first championship of its response has a non-empty
\* game list. The season year is that of the clock at the call, the
\* candidate years are those of the clock after the primary request.
C15_SourceOrder == SourceOrder(FirstChampionshipHasGames)

\* The second candidate year gave the bracket, after the primary source and
\* the first candidate year gave none; the season had changed while the
\* primary source was asked, and the second candidate year is the year the
\* primary source was asked for.
C15_Witness ==
    /\ fetch_pc = "done"
    /\ Len(queried) = 3
    /\ queried[3].source = "secondary"
    /\ Unwrap(fetch_result).ok
    /\ season_tournament_year(now[2]) # SeasonYear
    /\ queried[3].year = queried[1].year

\* C16: fetch_tournament returns an error only after every source of the chain
\* has been tried and has failed: the failure of a single source (an unreadable
\* or invalid document, a network, API, parse or NotFound error) makes the
\* chain go on to the next source or year instead of being returned.
C16_ErrorOnlyAfterEverySource ==
    fetch_result # None /\ ~ Unwrap(fetch_result).ok =>
        /\ \E i \in 1..Len(queried) : queried[i].source = "primary"
        /\ \A k \in 1..Len(CandidateYears) :
              \E i \in 1..Len(queried) :
                 queried[i].source = "secondary" /\ queried[i].year = CandidateYears[k]
        /\ queried[Len(queried)].source = "embedded"
        /\ \A i \in 1..Len(queried) : ~ queried[i].result.ok \/ queried[i].source # "embedded"

\* fetch_tournament has returned an error after walking the chain of the
\* primary source, the candidate years and the embedded snapshot.
EverySourceFailed ==
    /\ fetch_pc = "done"
    /\ ~ override_configured
    /\ ~ Unwrap(fetch_result).ok

GenericNotFound == NotFound(<< "NCAA Tournament not found in current/adjacent years" >>)

\* When every source fails, fetch_tournament returns the last error met while
\* walking the chain (primary source, candidate years, embedded snapshot), and
\* the generic NotFound error exactly when no error was met.
LastErrorReturned ==
    EverySourceFailed =>
        /\ encountered # << >> =>
              Unwrap(fetch_result).error = encountered[Len(encountered)]
        /\ encountered = << >> <=> Unwrap(fetch_result).error = GenericNotFound

\* The chain never fails: when neither the primary source nor a candidate
\* year gave a bracket, the embedded snapshot is the result.
ChainNeverFails ==
    (fetch_pc = "done" /\ ~ override_configured) =>
        /\ Unwrap(fetch_result).ok
        /\ queried[Len(queried)].source = "embedded" =>
              /\ Unwrap(fetch_result) = load_embedded_fallback_tournament
              /\ Len(queried) = Len(CandidateYears) + 2

\* The embedded snapshot has been returned after the primary source and
\* every candidate year failed, the last year with an error.
ChainNeverFailsReached ==
    /\ fetch_pc = "done"
    /\ queried[Len(queried)].source = "embedded"
    /\ chain_last_error # None
    /\ ~ queried[1].result.ok

\* The requests get was called for, and the default of the type asked for.
Requests == { i \in 1..Len(queried) : queried[i].source \in {"primary", "secondary"} }
DefaultOf(i) ==
    IF queried[i].source = "primary" THEN HenrygdResponse_default
    ELSE TournamentsResponse_default

\* StatusCode::is_success
is_success(status) == 200 <= status /\ status <= 299

\* What get made of no answer, of a 4xx status and of a success status, and
\* the chain going on after an error of get.
GetOutcomes(i) ==
    LET response == queried[i].response
        result == queried[i].result
    IN  /\ ~ response.sent => ~ result.ok /\ result.error.kind = "Network"
        /\ response.sent /\ is_client_error(response.status) =>
              result = Ok(DefaultOf(i))
        /\ response.sent /\ is_success(response.status) /\ response.body = None =>
              ~ result.ok /\ result.error.kind = "Parsing"
        /\ response.sent /\ is_success(response.status) /\ response.body # None =>
              result = Ok(Unwrap(response.body))
        /\ ~ result.ok => i < Len(queried) \/ fetch_pc # "done"

\* C18: get maps every outcome of a request to exactly one result:
\* a 4xx status to Ok of the empty default and never to an error, any other
\* non-success status to ApiError::Api, a transport failure to
\* ApiError::Network, a success status with an undecodable body to
\* ApiError::Parsing; and every such error makes the chain go on to the next
\* source or year.
C18_GetOutcomes ==
    \A i \in Requests :
        /\ GetOutcomes(i)
        /\ /\ queried[i].response.sent
           /\ ~ is_success(queried[i].response.status)
           /\ ~ is_client_error(queried[i].response.status)
           => ~ queried[i].result.ok /\ queried[i].result.error.kind = "Api"

(***************************************************************************)
(* SpecSelect: select_tournament_entry applied to every list of up to      *)
(* MaxEntries entries, an entry having one of six names and one of four    *)
(* brackets; the id of an entry is its place in the list.                  *)
(***************************************************************************)
NameMarchUnit == << "M", "a", "r", "c", "h", " ", "U", "N", "I", "T" >>
NameCbi == << "C", "B", "I" >>
NameInvitational ==
    << "I", "n", "v", "i", "t", "a", "t", "i", "o", "n", "a", "l", " ",
       "T", "o", "u", "r", "n", "a", "m", "e", "n", "t" >>

EntryNames ==
    { None, Some(NameNcaa), Some(NameNit), Some(NameMarchUnit), Some(NameCbi),
      Some(NameInvitational) }
EntryBrackets == { None, Some(Bracket(None)), Some(Bracket(Some(<< >>))), SomeBracket }

EntryLists ==
    UNION { { [i \in 1..n |-> TournamentEntry(i, names[i], brackets[i])] :
                names \in [1..n -> EntryNames], brackets \in [1..n -> EntryBrackets] } :
            n \in 0..MaxEntries }

InitSelect ==
    /\ InitNav
    /\ InitNet
    /\ InitLayoutIdle
    /\ InitNormIdle
    /\ InitFetchIdle
    /\ InitYearsIdle
    /\ entries_in \in EntryLists
    /\ year_in \in {FALLBACK_BRACKET_YEAR, FALLBACK_BRACKET_YEAR + 1}
    /\ selected = None

NextSelect == select /\ UNCHANGED offSelect

SpecSelect == InitSelect /\ [][NextSelect]_vars

\* The entries of the input with a non-empty bracket, and those of them whose
\* name passes the heuristics: of the six names, "NCAA" alone.
WithBracket == { i \in 1..Len(entries_in) : entries_in[i].bracket = SomeBracket }
Preferred == { i \in WithBracket : entries_in[i].name = Some(NameNcaa) }

\* C19: select_tournament_entry returns an entry with a non-empty bracket and a
\* name passing the heuristics (ncaa, march, championship or tournament in
\* it, whatever the case, and neither nit nor invitational) whenever there is
\* one; otherwise an entry with a non-empty bracket whenever there is one;
\* otherwise, also for the empty list, it fails with NotFound.
C19_Selection ==
    selected # None =>
        LET result == Unwrap(selected)
        IN  IF Preferred # { }
            THEN result.ok /\ \E i \in Preferred : result.value = entries_in[i]
            ELSE IF WithBracket # { }
            THEN result.ok /\ \E i \in WithBracket : result.value = entries_in[i]
            ELSE ~ result.ok /\ result.error.kind = "NotFound"

\* The second entry was selected: the first has a bracket and a name with
\* "march" and "nit" in it.
C19_Witness ==
    /\ selected # None
    /\ Len(entries_in) = 2
    /\ entries_in[1].bracket = SomeBracket
    /\ entries_in[1].name = Some(NameMarchUnit)
    /\ Unwrap(selected).ok
    /\ Unwrap(selected).value = entries_in[2]

(***************************************************************************)
(* SpecYears: candidate_tournament_years and season_tournament_year        *)
(* applied to a date of every month of the years within YearSpan of the    *)
(* fallback year.                                                          *)
(***************************************************************************)
InitYears ==
    /\ InitNav
    /\ InitNet
    /\ InitLayoutIdle
    /\ InitNormIdle
    /\ InitFetchIdle
    /\ InitSelectIdle
    /\ date_in \in [year : (FALLBACK_BRACKET_YEAR - YearSpan)..(FALLBACK_BRACKET_YEAR + YearSpan),
                    month : 1..12]
    /\ candidates = None
    /\ season = None

NextYears ==
    \/ candidate_years /\ UNCHANGED offYears
    \/ season_year /\ UNCHANGED offYears

SpecYears == InitYears /\ [][NextYears]_vars

\* The season year of the input date: the next year from November on.
SeasonOfInput == IF date_in.month \in {11, 12} THEN date_in.year + 1 ELSE date_in.year

Distance(y) == IF y >= SeasonOfInput THEN y - SeasonOfInput ELSE SeasonOfInput - y

\* C20: the list of candidate_tournament_years has no year twice, has the
\* season year, the year before, the year after and 2025 in it, and is sorted
\* by ascending distance from the season year, years at the same distance by
\* ascending year; the date 2026-02-24 gives [2026, 2025, 2027].
C20_CandidateYears ==
    candidates # None =>
        LET years == Unwrap(candidates)
        IN  /\ \A i, j \in 1..Len(years) : i # j => years[i] # years[j]
            /\ \A y \in {SeasonOfInput, SeasonOfInput - 1, SeasonOfInput + 1, 2025} :
                  \E i \in 1..Len(years) : years[i] = y
            /\ \A i, j \in 1..Len(years) :
                  i < j =>
                     \/ Distance(years[i]) < Distance(years[j])
                     \/ Distance(years[i]) = Distance(years[j]) /\ years[i] < years[j]
            /\ date_in = [year |-> 2026, month |-> 2] => years = << 2026, 2025, 2027 >>

\* The list of a date in February 2026 was computed: 2025 is both the year
\* before and the fallback year.
C20_Witness ==
    /\ date_in = [year |-> 2026, month |-> 2]
    /\ candidates = Some(<< 2026, 2025, 2027 >>)

\* C21: the season year of a date is the calendar year plus one when the month
\* is 11 or 12, and the calendar year for the months 1 to 10.
C21_SeasonYear ==
    season # None =>
        /\ date_in.month \in {11, 12} => Unwrap(season) = date_in.year + 1
        /\ date_in.month \in 1..10 => Unwrap(season) = date_in.year

\* The season year of a date in November was computed.
C21_Witness ==
    /\ date_in.month = 11
    /\ season = Some(date_in.year + 1)


(***************************************************************************)
(* SpecTrees: the two bracket normalizers over wire brackets that vary in  *)
(* the names, the ids and the order of their regions and in the numbers of *)
(* their rounds.                                                           *)
(***************************************************************************)
\* A shape-A game of a section at a bracket position, its teams not yet known.
SectionGame(sid, position) == HenrygdGame(position, sid, "P", << >>)

\* The games of the sections of a set: two of the first round and one of the
\* second for each, the sections interleaved, and if asked the two rounds of
\* the national section.
RECURSIVE SectionGames(_, _)
SectionGames(sids, position) ==
    IF sids = { } THEN << >>
    ELSE LET sid == CHOOSE s \in sids : \A o \in sids : s >= o
         IN  << SectionGame(sid, position + sid) >> \o SectionGames(sids \ {sid}, position)

ChampOf(regions, sids, national) ==
    HenrygdBracket(
        SectionGames(sids, 200) \o SectionGames(sids, 210) \o SectionGames(sids, 300)
        \o (IF national
            THEN << SectionGame(NATIONAL_SECTION, 601), SectionGame(NATIONAL_SECTION, 602),
                    SectionGame(NATIONAL_SECTION, 701) >>
            ELSE << >>),
        regions)

StrAlbany == << "A", "l", "b", "a", "n", "y" >>
StrBoston == << "B", "o", "s", "t", "o", "n" >>

\* The regions lists of the shape-A inputs, each with the sections that have
\* games.
SectionLists ==
    { << << HenrygdRegion(1, StrEast), HenrygdRegion(2, StrWest),
            HenrygdRegion(3, StrSouth), HenrygdRegion(4, StrMidwest) >>, 1..4 >>,
      << << HenrygdRegion(1, StrWest), HenrygdRegion(2, StrMidwest),
            HenrygdRegion(3, StrEast), HenrygdRegion(4, StrSouth) >>, 1..4 >>,
      << << HenrygdRegion(1, StrWest), HenrygdRegion(2, StrEast) >>, 1..2 >>,
      << << HenrygdRegion(1, StrWest), HenrygdRegion(2, StrEast), HenrygdRegion(3, StrSouth),
            HenrygdRegion(4, StrMidwest), HenrygdRegion(5, << >>) >>, 1..5 >>,
      << << HenrygdRegion(2, StrAlbany), HenrygdRegion(1, << >>) >>, 1..2 >>,
      << << HenrygdRegion(1, StrNational), HenrygdRegion(2, StrEast) >>, 1..2 >>,
      << << >>, 1..2 >> }

Champs == { ChampOf(l[1], l[2], national) : l \in SectionLists, national \in BOOLEAN }

\* str::to_uppercase, on ASCII text: the notes of the wire are in capitals.
upper(s) == [i \in 1..Len(s) |-> to_uppercase(s[i])]

\* A shape-B matchup with a note, its competitors not yet known.
NotedMatchup(id, note) == EspnMatchup(Some(id), None, None, note)

\* A shape-B round of a number with one matchup for each of the notes.
NotedRound(number, notes) ==
    EspnRound(number, Some([i \in 1..Len(notes) |-> NotedMatchup("m", notes[i])]), None)

FinalRounds ==
    << NotedRound(Some(6), << None, None >>), NotedRound(Some(7), << None >>) >>

\* The round lists of the shape-B inputs.
RoundLists ==
    { << NotedRound(Some(2), << Some(upper(StrEast)), Some(upper(StrWest)),
                                Some(upper(StrSouth)), Some(upper(StrMidwest)) >>),
         NotedRound(Some(3), << Some(upper(StrEast)), Some(upper(StrWest)),
                                Some(upper(StrSouth)), Some(upper(StrMidwest)) >>) >>
        \o FinalRounds,
      << NotedRound(Some(2), << Some(upper(StrMidwest)), Some(upper(StrSouth)),
                                Some(upper(StrWest)), Some(upper(StrEast)) >>) >>
        \o FinalRounds,
      << NotedRound(Some(2), << Some(upper(StrWest)), Some(upper(StrEast)) >>) >>,
      << NotedRound(Some(2), << None, None >>) >> \o FinalRounds,
      << NotedRound(Some(2), << Some(upper(StrAlbany)), Some(upper(StrBoston)) >>) >>
        \o FinalRounds,
      << NotedRound(Some(2), << Some(upper(StrEast)) >>),
         NotedRound(None, << Some(upper(StrEast)) >>) >>,
      << NotedRound(Some(1), << Some(upper(StrEast)) >>),
         NotedRound(Some(9), << Some(upper(StrEast)) >>),
         NotedRound(Some(0), << Some(upper(StrEast)) >>) >>,
      << EspnRound(Some(2), None, Some(<< NotedMatchup("g", Some(upper(StrSouth))) >>)),
         EspnRound(Some(6), Some(<< >>), None) >>,
      << >> }

Entries ==
    { TournamentEntry(Some("22"), Some(NameNcaa), Some(Bracket(Some(rounds)))) :
        rounds \in RoundLists }
    \cup { TournamentEntry(Some("22"), None, None),
           TournamentEntry(Some("22"), None, Some(Bracket(None))) }

InitTrees ==
    /\ InitNav
    /\ InitNet
    /\ InitLayoutIdle
    /\ InitApiIdle
    /\ InitGameIdle
    /\ champ_in \in Champs
    /\ entry_in \in Entries
    /\ mapped = None
    /\ mapped_by = "none"

NextTrees ==
    \/ normalize_championship /\ UNCHANGED offTree
    \/ normalize_entry /\ UNCHANGED offTree

SpecTrees == InitTrees /\ [][NextTrees]_vars

\* The names of the regions of the Tournament returned, in their order.
MappedNames == [i \in 1..Len(Unwrap(mapped).regions) |-> Unwrap(mapped).regions[i].name]

\* C22: in the Tournament either normalizer returns a region named National,
\* when there is one, is the last of the region list.
C22_NationalLast ==
    mapped # None =>
        \A i \in 1..Len(MappedNames) : MappedNames[i] = StrNational => i = Len(MappedNames)


\* The elements of a sequence in the order they first occur in.
RECURSIVE first_seen(_)
first_seen(s) ==
    IF s = << >> THEN << >>
    ELSE LET before == first_seen(SubSeq(s, 1, Len(s) - 1))
         IN  IF \E i \in 1..Len(before) : before[i] = s[Len(s)] THEN before
             ELSE Append(before, s[Len(s)])

\* A sequence without the name National.
WithoutNational(names) == Pick(names, { i \in 1..Len(names) : names[i] # StrNational })

\* The region names of a shape-A input by ascending section id.
ByAscendingId(champ) ==
    LET sids == { champ.games[i].section_id : i \in 1..Len(champ.games) } \ {NATIONAL_SECTION}
        sorted == sort_unstable(first_seen([i \in 1..Len(champ.games) |->
                                               champ.games[i].section_id]))
        others == Pick(sorted, { i \in 1..Len(sorted) : sorted[i] \in sids })
    IN  [i \in 1..Len(others) |->
            unwrap_or(region_names_get(champ.regions, others[i]),
                      StrRegion \o << " " >> \o to_string(others[i]))]

\* The region a matchup of a round is put in.
RegionOfMatchup(espn_round, i) ==
    IF is_final_four(round_number_to_kind(unwrap_or(espn_round.number, 2))) THEN StrNational
    ELSE region_name_of(games_iter(espn_round)[i])

\* The region names of a shape-B input in the order the wire first names them.
RECURSIVE RegionsOfRounds(_)
RegionsOfRounds(espn_rounds) ==
    IF espn_rounds = << >> THEN << >>
    ELSE [i \in 1..Len(games_iter(Head(espn_rounds))) |-> RegionOfMatchup(Head(espn_rounds), i)]
         \o RegionsOfRounds(Tail(espn_rounds))

ByInsertion(entry) ==
    first_seen(RegionsOfRounds(
        IF entry.bracket = None THEN << >> ELSE unwrap_or(Unwrap(entry.bracket).rounds, << >>)))

\* C23: in the Tournament either normalizer returns the regions other than
\* National are in the order East, West, South, Midwest when these four names
\* are all there, and else in the order of the source: by ascending section id
\* from shape A, in the order the wire first names them from shape B.
C23_RegionOrder ==
    mapped # None =>
        LET names == WithoutNational(MappedNames)
            four == << StrEast, StrWest, StrSouth, StrMidwest >>
            natural == IF mapped_by = "ncaa" THEN WithoutNational(ByAscendingId(champ_in))
                       ELSE WithoutNational(ByInsertion(entry_in))
        IN  IF \A k \in 1..4 : \E i \in 1..Len(names) : names[i] = four[k]
            THEN Pick(names, { i \in 1..Len(names) : \E k \in 1..4 : names[i] = four[k] }) = four
            ELSE names = natural

\* C24: in the Tournament either normalizer returns no two Rounds of a Region
\* have the same kind.
C24_OneRoundPerKind ==
    mapped # None =>
        \A r \in 1..Len(Unwrap(mapped).regions) :
            LET rounds == Unwrap(mapped).regions[r].rounds
            IN  \A i, j \in 1..Len(rounds) : i # j => rounds[i].kind # rounds[j].kind


(***************************************************************************)
(* SpecGames: the game normalizers and Game::winner over wire games that   *)
(* vary in the number of their teams or competitors, in which of them have *)
(* a team, a winner flag, a home/away tag and a score, and in their state. *)
(***************************************************************************)
MaxTeams == 3
MaxCompetitors == 2

\* The team entries of shape A at a position of a game: the id tells the
\* position.
NcaaTeams(i) ==
    { HenrygdTeam(id, Some("name"), None, Some(i), flag, None) :
        id \in {None, Some(<< "a", "b", "c" >>[i])},
        flag \in {None, Some(TRUE), Some(FALSE)} }

TeamLists ==
    UNION { { l \in [1..n -> UNION { NcaaTeams(i) : i \in 1..MaxTeams }] :
                \A i \in 1..n : l[i] \in NcaaTeams(i) } : n \in 0..MaxTeams }

NcaaGames == { HenrygdGame(201, 1, state, teams) : state \in {"P", "L", "F"}, teams \in TeamLists }

\* The competitors of shape B at a position: the id tells the position; the
\* team, if any, has the id of the competitor or one of its own.
Competitors(i) ==
    { EspnCompetitor(Some(<< "c1", "c2" >>[i]), tag, team, score, flag, None, None) :
        tag \in {None, Some("home"), Some("away")},
        team \in {None} \cup { Some(EspnTeam(Some(id), Some("name"), None, None, None)) :
                                id \in {<< "c1", "c2" >>[i], << "t1", "t2" >>[i]} },
        score \in {None, Some(<< Digits[6 + i] >>)},
        flag \in {None, Some(TRUE)} }

CompetitorLists ==
    UNION { { l \in [1..n -> UNION { Competitors(i) : i \in 1..MaxCompetitors }] :
                \A i \in 1..n : l[i] \in Competitors(i) } : n \in 0..MaxCompetitors }

\* A matchup with its competitors, and one with an event that has them.
Matchups ==
    { EspnMatchup(Some("m"), None, Some(l), None) : l \in CompetitorLists }
    \cup { EspnMatchup(Some("m"),
                       Some(EspnEvent(Some("e"), None, Some(<< [competitors |-> Some(l)] >>),
                                      None, None)),
                       None, None) : l \in CompetitorLists }

InitGames ==
    /\ InitNav
    /\ InitNet
    /\ InitLayoutIdle
    /\ InitApiIdle
    /\ InitTreeIdle
    /\ \/ game_in \in NcaaGames /\ matchup_in = EspnMatchup(None, None, None, None)
       \/ game_in = HenrygdGame(0, 0, "", << >>) /\ matchup_in \in Matchups
    /\ game_out = None
    /\ game_by = "none"
    /\ winner_out = None

NextGames ==
    \/ normalize_game /\ UNCHANGED offGame
    \/ normalize_matchup /\ UNCHANGED offGame
    \/ winner /\ UNCHANGED offGame

SpecGames == InitGames /\ [][NextGames]_vars

\* The ids of the resolved teams of the two slots of a game.
SlotIds(game) ==
    { Unwrap(slot.team).id : slot \in { s \in {game.rest.top, game.rest.bottom} : s.team # None } }

\* C25: the winner_id of a Game a normalizer returns, when present, is the id
\* of the resolved Team of its top slot or of its bottom slot.
C25_WinnerIsASlot ==
    game_out # None =>
        LET game == Unwrap(game_out)
        IN  game.rest.winner_id # None => Unwrap(game.rest.winner_id) \in SlotIds(game)

\* C26: Game::winner returns None when winner_id is absent, and otherwise the
\* resolved team whose id is winner_id: the top team whenever the id of the
\* top team is winner_id.
C26_WinnerResolves ==
    winner_out # None =>
        LET game == Unwrap(game_out)
            returned == Unwrap(winner_out)
        IN  IF game.rest.winner_id = None THEN returned = None
            ELSE /\ returned # None
                 /\ returned \in {game.rest.top.team, game.rest.bottom.team}
                 /\ Unwrap(returned).id = Unwrap(game.rest.winner_id)
                 /\ (game.rest.top.team # None
                     /\ Unwrap(game.rest.top.team).id = Unwrap(game.rest.winner_id))
                    => returned = game.rest.top.team

\* The slots and the winner_id map_ncaa_game gives a game without teams.
EmptySlots(game) ==
    /\ game.rest.top.team = None
    /\ game.rest.top.placeholder \in {Some("TBA"), Some("TBD")}
    /\ game.rest.bottom.team = None
    /\ game.rest.bottom.placeholder \in {Some("TBA"), Some("TBD")}
    /\ game.rest.winner_id = None

\* C27 as stated: map_ncaa_game of a game with zero team entries returns two
\* slots without team and with a TBA/TBD placeholder, no winner_id, and the
\* status Scheduled.
C27_EmptyTeamsAsClaimed ==
    (game_by = "ncaa" /\ game_in.teams = << >>) =>
        EmptySlots(Unwrap(game_out)) /\ Unwrap(game_out).status = "Scheduled"

\* C27: map_ncaa_game of a game with zero team entries returns two slots
\* without team and with a TBA/TBD placeholder, no winner_id, and the status
\* of its game state: InProgress for L, Final for F, Scheduled for any other.
C27_EmptyTeams ==
    (game_by = "ncaa" /\ game_in.teams = << >>) =>
        /\ EmptySlots(Unwrap(game_out))
        /\ game_in.game_state = "L" => Unwrap(game_out).status = "InProgress"
        /\ game_in.game_state = "F" => Unwrap(game_out).status = "Final"
        /\ game_in.game_state \notin {"L", "F"} => Unwrap(game_out).status = "Scheduled"

C27_Witness ==
    /\ game_by = "ncaa"
    /\ game_in.teams = << >>
    /\ game_in.game_state = "L"
    /\ Unwrap(game_out).status = "InProgress"
    /\ Unwrap(game_out).rest.top.placeholder = Some("TBA")

\* The competitors a matchup carries, in its event if it has one.
CompetitorsOf(matchup) ==
    IF matchup.event # None
    THEN flatten_competitors(unwrap_or(Unwrap(matchup.event).competitions, << >>))
    ELSE unwrap_or(matchup.competitors, << >>)

\* C30: of a matchup or event with two competitor entries the two slots, and
\* the two scores, are taken from two different entries, whatever home/away
\* tags the entries have.
C30_TwoEntriesTwoSlots ==
    (game_by = "espn" /\ Len(CompetitorsOf(matchup_in)) = 2) =>
        LET entries == CompetitorsOf(matchup_in)
            game == Unwrap(game_out)
        IN  \E i, j \in 1..2 :
                /\ i # j
                /\ game.rest.top = map_competitor(entries[i])
                /\ game.rest.bottom = map_competitor(entries[j])
                /\ game.rest.score # None =>
                       /\ entries[i].score # None
                       /\ entries[j].score # None
                       /\ game.rest.score = zip(parse_u16(Unwrap(entries[i].score)),
                                                parse_u16(Unwrap(entries[j].score)))


\* C28: once the worker has sent the result of a request and waits for the
\* next one, the spinner task of the request has ended and all it sent is
\* delivered, the UI's LoadingState is is_loading = false: no
\* LoadingStateChanged with is_loading = true of the spinner task is delivered
\* after the stop message of the request.
C28_LoadingSettles ==
    (/\ worker_pc = "recv"
     /\ responses = << >>
     /\ spin_tick = 0
     /\ spin_send = 0) => loading = FALSE


\* The regions the bracket and the scoreboard views choose from: those not
\* named National, in their order.
ShownRegions(t) == Pick(t.regions, { i \in 1..Len(t.regions) : t.regions[i].name # "National" })

\* C29: while view_round is earlier than FinalFour, of a loaded tournament
\* with a region other than National, the region selected_game_id looks the
\* game up in, regions[selected_region], is not National and is the region
\* the views show as selected, the selected_region-th of the regions other
\* than National.
C29_SameRegion ==
    (/\ IsSome(tournament)
     /\ ~ is_final_four(view_round)
     /\ ShownRegions(Unwrap(tournament)) # << >>) =>
        LET regions == Unwrap(tournament).regions
            shown == ShownRegions(Unwrap(tournament))
        IN  /\ selected_region < Len(regions)
            /\ regions[selected_region + 1].name # "National"
            /\ selected_region < Len(shown)
            /\ shown[selected_region + 1] = regions[selected_region + 1]

====
